---- MODULE Spec2Model ----
(***************************************************************************)
(* OpenContext: the provider registry (core/plugin_manager.py), the        *)
(* protocol dispatcher (core/mcp_server.py), the process-wide lazy         *)
(* initialisation of server/http_handler.py and the CKAN provider with its *)
(* SQL validator (plugins/ckan).                                           *)
(*                                                                         *)
(* Four specifications share the module:                                   *)
(*   Spec      one PluginManager and the MCPServer wrapping it, driven     *)
(*             sequentially (load_plugins, execute_tool, get_all_tools,    *)
(*             shutdown, health_check, handle_request);                    *)
(*   SpecHTTP  a process serving interleaved requests through              *)
(*             UniversalHTTPHandler.handle_request / _initialize_server;   *)
(*   SpecSQL   SQLValidator.validate_query and the two SQL tools of the    *)
(*             CKAN provider against the backend;                          *)
(*   SpecRetry one CKAN provider: initialize, shutdown and one             *)
(*             execute_tool call, the attempts of _call_ckan_api taken     *)
(*             one at a time.                                              *)
(* Text (messages, tool names, SQL) is a sequence of pieces; a piece is a  *)
(* string.  Exceptions are the name of the exception class, "none" when    *)
(* the call returned.                                                      *)
(***************************************************************************)
EXTENDS Integers, Sequences, FiniteSets, TLC

VARIABLES
    pm,         \* Spec: the PluginManager under test (config, plugins, tools, _initialized)
    insts,      \* Spec: every provider instance constructed so far
    fs,         \* Spec: names of the plugin directories discover_plugins finds
    res,        \* Spec: what the last operation did and returned
    hpc,        \* SpecHTTP: position of each request coroutine
    hpm,        \* SpecHTTP: the PluginManager objects created so far
    hinsts,     \* SpecHTTP: the provider instances constructed so far
    g_plugin_manager, \* SpecHTTP: module global _plugin_manager (0 is None)
    g_mcp_server,     \* SpecHTTP: module global _mcp_server: the index of the wrapped manager (0 is None)
    hloc,       \* SpecHTTP: locals of each request coroutine; SpecRetry: the provider and its retry loop
    hlog,       \* SpecHTTP: counters of what the process has done
    q,          \* SpecSQL: the tool call being served
    out,        \* SpecSQL: its result
    backend     \* SpecSQL: the requests posted to the CKAN API

regVars  == <<pm, insts, fs, res>>
httpVars == <<hpc, hpm, hinsts, g_plugin_manager, g_mcp_server, hloc, hlog>>
sqlVars  == <<q, out, backend>>
vars     == <<pm, insts, fs, res, hpc, hpm, hinsts, g_plugin_manager, g_mcp_server,
              hloc, hlog, q, out, backend>>

-----------------------------------------------------------------------------
(* Generic helpers: Python dict and list operations.                        *)

EmptyMap == [k \in {} |-> k]

Put(d, k, v) == [x \in (DOMAIN d) \cup {k} |-> IF x = k THEN v ELSE d[x]]

Range(s) == {s[i] : i \in DOMAIN s}

RECURSIVE SetToSeq(_, _)
\* the members of S in the order of the sequence `order`
SetToSeq(order, S) ==
    IF order = <<>> THEN <<>>
    ELSE (IF Head(order) \in S THEN <<Head(order)>> ELSE <<>>) \o SetToSeq(Tail(order), S)

-----------------------------------------------------------------------------
(* Bounds and the finite universe of names.                                 *)

MaxInstances == 2      \* provider instances one registry may construct
MaxRequests  == 3      \* request coroutines of a process
MaxManagers  == 2      \* PluginManager objects a process may create
MaxSqlLen    == 3      \* pieces of a SQL text

\* plugin names in the order the configuration lists them
NameOrder == <<"a", "b", "ckan">>
PluginNames == Range(NameOrder)

\* what a configuration holds under plugins.<name>: a dict with enabled true,
\* a dict with enabled false or missing, a value that is no dict
EntryKinds == {"enabled", "disabled", "scalar"}

\* the tool names each provider class lists (get_tools is deterministic)
ToolsOf(name) ==
    CASE name = "ckan" -> <<"search_datasets", "execute_sql">>
      [] name = "a"    -> <<"t1", "t1">>
      [] OTHER         -> <<>>

\* the ToolDefinition objects get_tools returns, in order
ToolDefs(name) ==
    [i \in DOMAIN ToolsOf(name) |->
        [name |-> ToolsOf(name)[i],
         description |-> <<"description", name, i>>,
         input_schema |-> <<"schema", name, i>>]]

-----------------------------------------------------------------------------
(* core/validators.py                                                       *)

\* config.get("plugins", {})
PluginsSection(config) == IF config.has_plugins THEN config.plugins ELSE EmptyMap

\* the loop of validate_plugin_count: entries that are dicts with a truthy "enabled"
EnabledPlugins(config) ==
    LET plugins_config == PluginsSection(config)
    IN SelectSeq(NameOrder,
                 LAMBDA n : n \in DOMAIN plugins_config /\ plugins_config[n] = "enabled")

MultipleText_FirstTwoOnly(enabled_plugins) ==
    <<"Multiple Plugins Enabled", enabled_plugins[1], enabled_plugins[2]>>

\* the text of the "Multiple Plugins Enabled" error: plugin_list, then the two fork lines
MultipleText(enabled_plugins) ==
    <<"Multiple Plugins Enabled">> \o enabled_plugins
        \o <<enabled_plugins[1], enabled_plugins[2]>>

validate_plugin_count(config) ==
    LET enabled_plugins == EnabledPlugins(config)
        count == Len(enabled_plugins)
    IN  IF count = 0
        THEN [exc |-> "ConfigurationError", text |-> <<"No Plugins Enabled">>,
              enabled_plugins |-> enabled_plugins]
        ELSE IF count > 1
        THEN [exc |-> "ConfigurationError", text |-> MultipleText(enabled_plugins),
              enabled_plugins |-> enabled_plugins]
        ELSE [exc |-> "none", text |-> <<>>, enabled_plugins |-> enabled_plugins]

get_enabled_plugin_config(config) ==
    LET v == validate_plugin_count(config)
    IN  IF v.exc # "none" THEN [exc |-> v.exc, text |-> v.text, plugin_name |-> ""]
        ELSE IF Len(v.enabled_plugins) # 1
        THEN [exc |-> "ConfigurationError", text |-> <<"Internal error">>, plugin_name |-> ""]
        ELSE [exc |-> "none", text |-> <<>>, plugin_name |-> v.enabled_plugins[1]]

-----------------------------------------------------------------------------
(* core/plugin_manager.py                                                   *)

\* PluginManager.__init__
NewManager(config) ==
    [config |-> config, plugins |-> EmptyMap, tools |-> EmptyMap, initialized |-> FALSE]

PrefixedName_NoPrefix(plugin_name, tool) == <<tool>>

\* prefixed_name = f"{plugin_name}.{tool_def.name}" in _register_tools
PrefixedName(plugin_name, tool) == <<plugin_name, ".", tool>>

ListedName_DoubleUnderscore(plugin_name, tool) == <<plugin_name, "__", tool>>

\* prefixed_name = f"{plugin_name}.{tool_def.name}" in get_all_tools
ListedName(plugin_name, tool) == <<plugin_name, ".", tool>>

MarkInitialized_Forgotten(m) == m

\* self._initialized = True, the last statement of load_plugins
MarkInitialized(m) == [m EXCEPT !.initialized = TRUE]

NotInitialized_Unchecked(m) == FALSE

\* `if not self._initialized` of execute_tool
NotInitialized(m) == ~m.initialized

RECURSIVE RegisterLoop(_, _, _)
\* the for loop of _register_tools: later entries overwrite earlier ones
RegisterLoop(tools, plugin_name, listed) ==
    IF listed = <<>> THEN tools
    ELSE RegisterLoop(Put(tools, PrefixedName(plugin_name, Head(listed)),
                          <<plugin_name, Head(listed)>>),
                      plugin_name, Tail(listed))

\* what the environment does during one load_plugins; a stage that is not
\* reached (an earlier one failed) is left at its good value
LoadEnvs ==
    {env \in [class : {"ok", "ImportError", "ValueError"},
              ctor : {"ok", "raise"},
              init : {"true", "false", "raise"},
              get_tools : {"ok", "raise"}] :
        /\ env.class # "ok" => env.ctor = "ok"
        /\ env.ctor # "ok" => env.init = "true"
        /\ env.init # "true" => env.get_tools = "ok"}

GoodEnv(env) ==
    env.class = "ok" /\ env.ctor = "ok" /\ env.init = "true" /\ env.get_tools = "ok"

InitializeFailed_OnlyOnRaise(env) == env.init = "raise"

\* initialize() raised, or returned a false value
InitializeFailed(env) == env.init # "true"

\* a provider instance as the registry sees it
NewInstance(name) == [name |-> name, active |-> FALSE, shutdowns |-> 0]

Raised(m, is, exc, text, steps) ==
    [pm |-> m, insts |-> is, exc |-> exc, text |-> text, steps |-> steps]

\* load_plugins up to and including the constructor call; nothing of the
\* registry is written before `await plugin_instance.initialize()`
LoadBeforeAwait(m, is, discovered, env) ==
    LET g == get_enabled_plugin_config(m.config)
        s1 == <<"validate_plugin_count">>
        s2 == s1 \o <<"discover_plugins">>
        s3 == s2 \o <<"_load_plugin_class">>
        s4 == s3 \o <<"construct">>
        plugin_name == g.plugin_name
    IN  IF g.exc # "none" THEN Raised(m, is, g.exc, g.text, s1)
        ELSE IF plugin_name \notin discovered
        THEN Raised(m, is, "RuntimeError",
                    <<"Plugin", plugin_name, "is enabled in config.yaml but not found",
                      "Available plugins:">> \o SetToSeq(NameOrder, discovered), s2)
        ELSE IF env.class # "ok"
        THEN Raised(m, is, "RuntimeError", <<"Failed to load plugin", plugin_name>>, s3)
        ELSE IF env.ctor # "ok"
        THEN Raised(m, is, "RuntimeError", <<"Failed to instantiate plugin", plugin_name>>, s4)
        ELSE Raised(m, Append(is, NewInstance(plugin_name)), "pending", <<plugin_name>>, s4)

\* load_plugins from the return of initialize() on instance i
LoadAfterAwait(m, is, i, env, steps) ==
    LET plugin_name == is[i].name
        s5 == steps \o <<"initialize">>
        s6 == s5 \o <<"store">>
        s7 == s6 \o <<"_register_tools">>
        activated == [is EXCEPT ![i].active = TRUE]
        stored == [m EXCEPT !.plugins = Put(m.plugins, plugin_name, i)]
    IN  IF InitializeFailed(env)
        THEN Raised(m, is, "RuntimeError", <<"Failed to initialize plugin", plugin_name>>, s5)
        ELSE IF env.get_tools # "ok"
        THEN Raised(stored, activated, "Exception", <<"get_tools failed">>, s7)
        ELSE Raised(MarkInitialized(
                        [stored EXCEPT !.tools = RegisterLoop(stored.tools, plugin_name,
                                                              ToolsOf(plugin_name))]),
                    activated, "none", <<>>, s7)

\* PluginManager.load_plugins, run to completion
load_plugins(m, is, discovered, env) ==
    LET b == LoadBeforeAwait(m, is, discovered, env)
    IN  IF b.exc # "pending" THEN b
        ELSE LoadAfterAwait(b.pm, b.insts, Len(b.insts), env, b.steps)

\* the provider's answer to execute_tool
ProviderAnswers == {"ok", "fail", "raise"}

ToolResult(content, success, error_message) ==
    [content |-> content, success |-> success, error_message |-> error_message]

\* the ToolResult an abstract provider hands back
ProviderResult(answer) ==
    IF answer = "ok" THEN ToolResult(<<"text">>, TRUE, <<>>)
    ELSE ToolResult(<<>>, FALSE, <<"provider error">>)

AvailableTools_None(m) == {}

\* ", ".join(sorted(self.tools.keys())): which names the text holds
AvailableTools(m) == DOMAIN m.tools

NoResult == ToolResult(<<>>, FALSE, <<>>)

\* str(e) of the exception an abstract provider raises
ProviderRaises == <<"boom">>

ExecutionFailed_Reraised(e) == ToolResult(<<>>, FALSE, <<>>)

\* the except branch around plugin.execute_tool
ExecutionFailed(e) == ToolResult(<<>>, FALSE, <<"Tool execution failed:">> \o e)

\* PluginManager.execute_tool
execute_tool(m, tool_name, arguments, answer) ==
    IF NotInitialized(m)
    THEN [exc |-> "RuntimeError", text |-> <<"Plugin Manager not initialized">>,
          names |-> {}, result |-> NoResult, steps |-> <<>>]
    ELSE IF tool_name \notin DOMAIN m.tools
    THEN [exc |-> "ValueError", text |-> <<"Tool", "not found", "Available tools:">>,
          names |-> AvailableTools(m), result |-> NoResult, steps |-> <<>>]
    ELSE LET plugin_name == m.tools[tool_name][1]
             actual_tool_name == m.tools[tool_name][2]
             call == <<"plugin.execute_tool", plugin_name, actual_tool_name, arguments>>
         IN  IF plugin_name \notin DOMAIN m.plugins
             THEN [exc |-> "RuntimeError", text |-> <<"Plugin", plugin_name, "not loaded">>,
                   names |-> {}, result |-> NoResult, steps |-> <<>>]
             ELSE IF answer = "raise"
             THEN [exc |-> "none", text |-> <<>>, names |-> {},
                   result |-> ExecutionFailed(ProviderRaises),
                   steps |-> <<call>>]
             ELSE [exc |-> "none", text |-> <<>>, names |-> {},
                   result |-> ProviderResult(answer), steps |-> <<call>>]

RECURSIVE ListTools(_, _)
ListTools(plugin_name, listed) ==
    IF listed = <<>> THEN <<>>
    ELSE <<[name |-> ListedName(plugin_name, Head(listed).name),
            description |-> Head(listed).description,
            inputSchema |-> Head(listed).input_schema]>> \o ListTools(plugin_name, Tail(listed))

RECURSIVE AllTools(_, _)
AllTools(m, names) ==
    IF names = <<>> THEN <<>>
    ELSE ListTools(Head(names), ToolDefs(Head(names))) \o AllTools(m, Tail(names))

\* PluginManager.get_all_tools: every stored provider's tools under prefixed names
get_all_tools(m) == AllTools(m, SetToSeq(NameOrder, DOMAIN m.plugins))

RECURSIVE ShutdownLoop(_, _, _)
\* the for loop of shutdown: plugin.shutdown() is awaited on each stored
\* provider; one that raises is logged and the loop goes on
ShutdownLoop(is, ids, raises) ==
    IF ids = {} THEN is
    ELSE LET i == CHOOSE x \in ids : TRUE
         IN  ShutdownLoop([is EXCEPT ![i].active = FALSE,
                                     ![i].shutdowns = is[i].shutdowns + 1],
                          ids \ {i}, raises)

shutdown_StoppedByException(m, is, raises) ==
    [pm |-> IF raises THEN m
            ELSE [m EXCEPT !.plugins = EmptyMap, !.tools = EmptyMap, !.initialized = FALSE],
     insts |-> ShutdownLoop(is, {m.plugins[n] : n \in DOMAIN m.plugins}, raises)]

shutdown_KeepsTools(m, is, raises) ==
    [pm |-> [m EXCEPT !.plugins = EmptyMap, !.initialized = FALSE],
     insts |-> ShutdownLoop(is, {m.plugins[n] : n \in DOMAIN m.plugins}, raises)]

\* PluginManager.shutdown
shutdown(m, is, raises) ==
    [pm |-> [m EXCEPT !.plugins = EmptyMap, !.tools = EmptyMap, !.initialized = FALSE],
     insts |-> ShutdownLoop(is, {m.plugins[n] : n \in DOMAIN m.plugins}, raises)]

health_check_RaiseCountsAsHealthy(m, probe) ==
    [n \in DOMAIN m.plugins |-> probe.exc # "none" \/ probe.value]

\* PluginManager.health_check; probe is what the stored provider's
\* health_check() does: returns a value, or raises
health_check(m, probe) ==
    [n \in DOMAIN m.plugins |-> IF probe.exc # "none" THEN FALSE ELSE probe.value]

-----------------------------------------------------------------------------
(* core/mcp_server.py                                                       *)

\* JSON values of the envelope's id member; AbsentId: the member is missing
AbsentId == "<absent>"
IdValues == {AbsentId, "null", "0", "\"\"", "1"}

Methods == {"initialize", "tools/list", "tools/call", "ping",
            "notifications/initialized", "resources/list"}

\* params.name as sent: missing, the empty string, or a tool name
AbsentName == <<"<absent>">>
NameInputs == {AbsentName, <<>>, <<"ckan", ".", "search_datasets">>, <<"a", ".", "t1">>,
               <<"ckan", "__", "search_datasets">>, <<"unknown", ".", "tool">>}

\* params: missing, a JSON array, or an object
NoParams   == [kind |-> "absent", name |-> AbsentName, arguments |-> "<absent>"]
ListParams == [kind |-> "list", name |-> AbsentName, arguments |-> "<absent>"]
DictParams(name, arguments) == [kind |-> "dict", name |-> name, arguments |-> arguments]
CallParams ==
    {DictParams(n, "<absent>") : n \in NameInputs}
    \cup {DictParams(n, "{x:1}") : n \in {<<"ckan", ".", "search_datasets">>, <<"a", ".", "t1">>}}

Envelopes ==
    [id : IdValues, method : Methods \ {"tools/call"}, params : {NoParams}]
    \cup [id : IdValues, method : {"initialize"}, params : {ListParams}]
    \cup [id : IdValues, method : {"tools/call"},
          params : {NoParams, ListParams} \cup CallParams]

\* request.get("id"): None when the member is missing and when it is JSON null
GetId(request) == IF request.id \in {AbsentId, "null"} THEN "None" ELSE request.id

\* is_notification = request_id is None
IsNotification(request_id) == request_id = "None"

\* what the provider does while one envelope is dispatched
Behaviours == [answer : ProviderAnswers, get_tools : {"ok", "raise"}]

\* the provider is asked only by tools/list (get_tools) and by a routed
\* tools/call (execute_tool); elsewhere its behaviour is left at "ok"
Asked(m, request, beh) ==
    /\ beh.get_tools = "raise" => request.method = "tools/list" /\ DOMAIN m.plugins # {}
    /\ beh.answer # "ok" =>
          /\ request.method = "tools/call"
          /\ m.initialized
          /\ request.params.name \in DOMAIN m.tools

Handled(exc, text, result, steps) ==
    [exc |-> exc, text |-> text, result |-> result, steps |-> steps]

\* MCPServer._handle_tools_list
handle_tools_list(m, beh) ==
    IF DOMAIN m.plugins # {} /\ beh.get_tools = "raise"
    THEN Handled("Exception", <<"get_tools failed">>, [none |-> TRUE],
                 <<<<"plugin_manager.get_all_tools">>>>)
    ELSE Handled("none", <<>>, [tools |-> get_all_tools(m)],
                 <<<<"plugin_manager.get_all_tools">>>>)

\* MCPServer._handle_tools_call
handle_tools_call(m, params, beh) ==
    IF params.kind = "list"
    THEN Handled("AttributeError", <<"'list' object has no attribute 'get'">>,
                 [none |-> TRUE], <<>>)
    ELSE LET tool_name == params.name
             arguments == IF params.arguments = "<absent>" THEN "{}" ELSE params.arguments
         IN  IF tool_name \in {AbsentName, <<>>}
             THEN Handled("ValueError", <<"Tool name is required">>, [none |-> TRUE], <<>>)
             ELSE LET r == execute_tool(m, tool_name, arguments, beh.answer)
                      steps == <<<<"plugin_manager.execute_tool", tool_name, arguments>>>>
                                   \o r.steps
                  IN  IF r.exc # "none"
                      THEN Handled(r.exc, r.text, [none |-> TRUE], steps)
                      ELSE IF r.result.success
                      THEN Handled("none", <<>>, [content |-> r.result.content], steps)
                      ELSE Handled("none", <<>>,
                                   [content |-> r.result.content, isError |-> TRUE,
                                    error |-> r.result.error_message], steps)

\* the protocol metadata of _handle_initialize
InitializeResult ==
    [protocolVersion |-> "2025-03-26", capabilities |-> "tools", serverInfo |-> "opencontext"]

EarlyReturn_OnlyWithoutId(method, is_notification) ==
    is_notification /\ method \notin {"initialize", "tools/list", "tools/call", "ping"}

\* the two `return None` inside the method routing: notifications/initialized,
\* and an unknown method of a notification
EarlyReturn(method, is_notification) ==
    \/ method = "notifications/initialized"
    \/ is_notification /\ method \notin {"initialize", "tools/list", "tools/call", "ping"}

\* the method routing inside the try block of handle_request; `suppress` is an
\* early `return None`
Route(m, request, beh) ==
    LET method == request.method
        is_notification == IsNotification(GetId(request))
        go(h) == [h |-> h, suppress |-> FALSE]
        stop == [h |-> Handled("none", <<>>, [none |-> TRUE], <<>>), suppress |-> TRUE]
    IN  IF EarlyReturn(method, is_notification) THEN stop ELSE
        CASE method = "initialize" -> go(Handled("none", <<>>, InitializeResult, <<>>))
          [] method = "tools/list" -> go(handle_tools_list(m, beh))
          [] method = "tools/call" -> go(handle_tools_call(m, request.params, beh))
          [] method = "ping" -> go(Handled("none", <<>>, [status |-> "ok"], <<>>))
          [] OTHER -> go(Handled("ValueError", <<"Unknown method:", method>>,
                              [none |-> TRUE], <<>>))

ErrorReply_NotSuppressed(request_id, is_notification, text) ==
    <<[jsonrpc |-> "2.0", id |-> request_id,
       error |-> [code |-> -32603, message |-> "Internal error", data |-> text]]>>

\* the except branch of handle_request
ErrorReply(request_id, is_notification, text) ==
    IF is_notification THEN <<>>
    ELSE <<[jsonrpc |-> "2.0", id |-> request_id,
            error |-> [code |-> -32603, message |-> "Internal error", data |-> text]]>>

\* the tail of the try block of handle_request
ResultReply(request_id, is_notification, result) ==
    IF is_notification THEN <<>>
    ELSE <<[jsonrpc |-> "2.0", id |-> request_id, result |-> result]>>

\* MCPServer.handle_request: the reply is <<>> (None) or one response
handle_request(m, request, beh) ==
    LET request_id == GetId(request)
        is_notification == IsNotification(request_id)
        r == Route(m, request, beh)
    IN  [reply |-> IF r.suppress THEN <<>>
                   ELSE IF r.h.exc # "none"
                   THEN ErrorReply(request_id, is_notification, r.h.text)
                   ELSE ResultReply(request_id, is_notification, r.h.result),
         handler_exc |-> r.h.exc,
         handler_text |-> r.h.text,
         steps |-> r.h.steps]

\* json.loads(body): text that is no JSON, a JSON object, another JSON value
InvalidJson(body) == body.json = "invalid"

\* MCPServer.handle_http_request; a body that parses to a value without .get
\* makes handle_request raise AttributeError before its try block
handle_http_request(m, body, beh) ==
    IF InvalidJson(body)
    THEN [exc |-> "none", statusCode |-> 400,
          body |-> <<[jsonrpc |-> "2.0", id |-> "None",
                      error |-> [code |-> -32700, message |-> "Parse error",
                                 data |-> <<"JSONDecodeError">>]]>>,
          steps |-> <<>>]
    ELSE IF body.json # "object"
    THEN [exc |-> "AttributeError", statusCode |-> 0, body |-> <<>>, steps |-> <<>>]
    ELSE LET r == handle_request(m, body.envelope, beh)
         IN  [exc |-> "none", statusCode |-> 200, body |-> r.reply,
              steps |-> <<<<"handle_request">>>> \o r.steps]

-----------------------------------------------------------------------------
(* plugins/ckan/plugin.py: the backend call and the health probe.           *)

\* stop=stop_after_attempt(3) of the retry decorator
StopAfterAttempt == 3

\* _call_ckan_api under @retry: the backend fails the first `fails` attempts;
\* without a client every attempt raises before anything is posted
call_ckan_api(has_client, action, data, fails) ==
    LET attempts == IF ~has_client \/ fails >= StopAfterAttempt THEN StopAfterAttempt
                    ELSE fails + 1
        post == [action |-> action, data |-> data]
    IN  [exc |-> IF ~has_client \/ fails >= StopAfterAttempt THEN "RetryError" ELSE "none",
         attempts |-> attempts,
         posts |-> IF has_client THEN [i \in 1..attempts |-> post] ELSE <<>>]

\* CKANPlugin.health_check: status_show, response.get("success", False), and
\* False on any exception
CKANPlugin_health_check(has_client, fails, answer) ==
    LET c == call_ckan_api(has_client, "status_show", "{}", fails)
    IN  [exc |-> "none",
         value |-> c.exc = "none" /\ answer = "ok",
         posts |-> c.posts]

\* a CKANPlugin as constructed: self.client = None, self._initialized = False
NewPlugin == [client |-> FALSE, initialized |-> FALSE]

\* CKANPlugin.initialize on provider p: ctor is what httpx.AsyncClient(...)
\* does, fails and answer what the backend does with status_show
CKANPlugin_initialize(p, ctor, fails, answer) ==
    IF ctor # "ok"
    THEN [p |-> p, exc |-> "none", value |-> FALSE, posts |-> <<>>]
    ELSE LET c == call_ckan_api(TRUE, "status_show", "{}", fails)
             success == c.exc = "none" /\ answer = "ok"
         IN  [p |-> [client |-> TRUE, initialized |-> p.initialized \/ success],
              exc |-> "none", value |-> success, posts |-> c.posts]

\* CKANPlugin.shutdown
CKANPlugin_shutdown(p) ==
    [p |-> [client |-> FALSE, initialized |-> FALSE], exc |-> "none", closed |-> p.client]

-----------------------------------------------------------------------------
(* Spec: one registry and its dispatcher, driven sequentially.              *)

\* configurations: no plugins section, or one entry per name
Configs ==
    {[has_plugins |-> FALSE, plugins |-> EmptyMap]}
    \cup {[has_plugins |-> TRUE, plugins |-> p] : p \in [PluginNames -> {"enabled", "disabled"}]}
    \cup {[has_plugins |-> TRUE, plugins |-> p] :
            p \in {[a |-> "scalar", b |-> "scalar", ckan |-> "enabled"],
                   [a |-> "scalar", b |-> "disabled", ckan |-> "scalar"]}}

\* the plugin directories present: all, or all but ckan
Discoveries == {PluginNames, PluginNames \ {"ckan"}}

HttpIdle ==
    /\ hpc = <<>> /\ hpm = <<>> /\ hinsts = <<>>
    /\ g_plugin_manager = 0 /\ g_mcp_server = 0
    /\ hloc = <<>> /\ hlog = <<>>

SqlIdle == q = <<>> /\ out = <<>> /\ backend = <<>>

Init ==
    /\ pm \in {NewManager(c) : c \in Configs}
    /\ insts = <<>>
    /\ fs \in Discoveries
    /\ res = [op |-> "init"]
    /\ HttpIdle
    /\ SqlIdle

\* await manager.load_plugins()
LoadPlugins(env) ==
    /\ Len(insts) < MaxInstances
    /\ LET r == load_plugins(pm, insts, fs, env)
       IN  /\ pm' = r.pm
           /\ insts' = r.insts
           /\ res' = [op |-> "load_plugins", exc |-> r.exc, text |-> r.text,
                      steps |-> r.steps, env |-> env, was_initialized |-> pm.initialized]
    /\ UNCHANGED <<fs, httpVars, sqlVars>>

\* await manager.execute_tool(tool_name, arguments)
ExecuteTool(tool_name, arguments, answer) ==
    /\ LET r == execute_tool(pm, tool_name, arguments, answer)
       IN  res' = [op |-> "execute_tool", tool_name |-> tool_name, arguments |-> arguments,
                   answer |-> answer, exc |-> r.exc, text |-> r.text, names |-> r.names,
                   result |-> r.result, steps |-> r.steps]
    /\ UNCHANGED <<pm, insts, fs, httpVars, sqlVars>>

\* manager.get_all_tools()
GetAllTools ==
    /\ res' = [op |-> "get_all_tools", tools |-> get_all_tools(pm)]
    /\ UNCHANGED <<pm, insts, fs, httpVars, sqlVars>>

\* await manager.shutdown(); the provider's shutdown() may raise
Shutdown(raises) ==
    /\ raises => DOMAIN pm.plugins # {}
    /\ LET r == shutdown(pm, insts, raises)
       IN  /\ pm' = r.pm
           /\ insts' = r.insts
    /\ res' = [op |-> "shutdown", raised |-> raises]
    /\ UNCHANGED <<fs, httpVars, sqlVars>>

\* what a provider's health_check() does: the CKAN provider's is computed from
\* its client and backend, another provider's returns or raises
Probes(m) ==
    IF DOMAIN m.plugins = {} THEN {[exc |-> "none", value |-> TRUE, posts |-> <<>>]}
    ELSE IF "ckan" \in DOMAIN m.plugins
    THEN {CKANPlugin_health_check(c, f, a) :
            c \in BOOLEAN, f \in {0, StopAfterAttempt}, a \in {"ok", "unhealthy", "malformed"}}
    ELSE {[exc |-> e, value |-> v, posts |-> <<>>] :
            e \in {"none", "Exception"}, v \in BOOLEAN}

\* await manager.health_check()
HealthCheck(probe) ==
    /\ probe.exc # "none" => ~probe.value
    /\ res' = [op |-> "health_check", probe |-> probe, health |-> health_check(pm, probe)]
    /\ UNCHANGED <<pm, insts, fs, httpVars, sqlVars>>

HandleRequest_FailureUnloads(request, beh) ==
    /\ LET r == handle_request(pm, request, beh)
       IN  /\ res' = [op |-> "handle_request", request |-> request, beh |-> beh,
                      reply |-> r.reply,
                      handler_exc |-> r.handler_exc, handler_text |-> r.handler_text,
                      steps |-> r.steps]
           /\ pm' = IF r.handler_exc # "none" THEN [pm EXCEPT !.initialized = FALSE] ELSE pm
    /\ UNCHANGED <<insts, fs, httpVars, sqlVars>>

\* await MCPServer(manager).handle_request(request)
HandleRequest(request, beh) ==
    /\ LET r == handle_request(pm, request, beh)
       IN  res' = [op |-> "handle_request", request |-> request, beh |-> beh,
                   reply |-> r.reply,
                   handler_exc |-> r.handler_exc, handler_text |-> r.handler_text,
                   steps |-> r.steps]
    /\ UNCHANGED <<pm, insts, fs, httpVars, sqlVars>>

Next ==
    \/ \E env \in LoadEnvs : LoadPlugins(env)
    \/ \E n \in NameInputs \ {AbsentName}, a \in {"{}", "{x:1}"}, ans \in ProviderAnswers :
          /\ (ans # "ok" \/ a # "{}") => pm.initialized /\ n \in DOMAIN pm.tools
          /\ ExecuteTool(n, a, ans)
    \/ GetAllTools
    \/ \E raises \in BOOLEAN : Shutdown(raises)
    \/ \E probe \in Probes(pm) : HealthCheck(probe)
    \/ \E request \in Envelopes, beh \in Behaviours :
          Asked(pm, request, beh) /\ HandleRequest(request, beh)

Spec == Init /\ [][Next]_vars

-----------------------------------------------------------------------------
(* SpecHTTP: server/http_handler.py.  Request coroutines of one process,    *)
(* scheduled cooperatively: a step runs from one suspension to the next.    *)
(* The one suspension inside _initialize_server is                          *)
(* `await plugin_instance.initialize()` of load_plugins.                    *)

Requests == 1..MaxRequests

\* the configuration _load_config returns (cached in _config)
HttpConfigs ==
    {[has_plugins |-> TRUE, plugins |-> p] :
        p \in {[a |-> "disabled", b |-> "disabled", ckan |-> "enabled"],
               [a |-> "enabled", b |-> "disabled", ckan |-> "enabled"],
               [a |-> "disabled", b |-> "disabled", ckan |-> "disabled"]}}

Envelope(id, method, params) == [id |-> id, method |-> method, params |-> params]

JsonObject(envelope) == [json |-> "object", envelope |-> envelope]

\* request bodies: not JSON, a JSON array, and envelopes
Bodies ==
    {[json |-> "invalid", envelope |-> Envelope(AbsentId, "ping", NoParams)],
     [json |-> "array", envelope |-> Envelope(AbsentId, "ping", NoParams)],
     JsonObject(Envelope("1", "ping", NoParams)),
     JsonObject(Envelope(AbsentId, "ping", NoParams)),
     JsonObject(Envelope("null", "ping", NoParams)),
     JsonObject(Envelope("1", "tools/call",
                         DictParams(<<"ckan", ".", "search_datasets">>, "<absent>")))}

HttpMethods == {"POST", "GET"}
Paths == {"/mcp", "/other"}

Response(status, allow, body) == [status |-> status, allow |-> allow, body |-> body]

ErrorBody(code, message, data) ==
    <<[jsonrpc |-> "2.0", id |-> "None",
       error |-> [code |-> code, message |-> message, data |-> data]]>>

\* the two except branches of UniversalHTTPHandler.handle_request
ErrorResponse(exc, text) ==
    IF exc = "ConfigurationError"
    THEN Response(500, "", ErrorBody(-32603, "Server configuration error", text))
    ELSE Response(500, "", ErrorBody(-32603, "Internal error", text))

\* the except branches of _initialize_server: a ConfigurationError leaves as RuntimeError
InitializeRaises(exc, text) ==
    IF exc = "ConfigurationError"
    THEN [exc |-> "RuntimeError", text |-> <<"Configuration error:">> \o text]
    ELSE [exc |-> exc, text |-> text]

\* response = await _mcp_server.handle_http_request(body, headers), and what
\* handle_request makes of it
Serve(m, body, beh) ==
    LET r == handle_http_request(m, body, beh)
    IN  IF r.exc # "none"
        THEN [response |-> ErrorResponse(r.exc, <<"'list' object has no attribute 'get'">>),
              steps |-> r.steps]
        ELSE [response |-> Response(r.statusCode, "", r.body), steps |-> r.steps]

\* the provider's behaviour matters only to a body that is dispatched
AskedBody(m, body, beh) ==
    IF body.json = "object" THEN Asked(m, body.envelope, beh)
    ELSE beh = [answer |-> "ok", get_tools |-> "ok"]

\* the locals of a request coroutine that matter across its suspension
NoLocals == [body |-> <<>>, mine |-> 0, inst |-> 0, steps |-> <<>>]

\* the record of a finished request, kept in hlog.last
Finished(r, http_method, path, body, env, beh, mine, served_by, init, steps, response) ==
    [r |-> r, http_method |-> http_method, path |-> path, body |-> body, env |-> env,
     beh |-> beh, mine |-> mine, served_by |-> served_by, init |-> init, steps |-> steps,
     response |-> response]

QuietProvider == [answer |-> "ok", get_tools |-> "ok"]
NoEnv == [class |-> "ok", ctor |-> "ok", init |-> "true", get_tools |-> "ok"]

InitHTTP ==
    /\ hpc = [r \in Requests |-> "idle"]
    /\ hpm = <<>>
    /\ hinsts = <<>>
    /\ g_plugin_manager = 0
    /\ g_mcp_server = 0
    /\ hloc = [r \in Requests |-> NoLocals]
    /\ hlog \in {[config |-> c, load_calls |-> 0, last |-> [r |-> 0]] : c \in HttpConfigs}
    /\ pm = <<>> /\ insts = <<>> /\ fs = PluginNames /\ res = <<>>
    /\ SqlIdle

Finish(r, record) ==
    /\ hpc' = [hpc EXCEPT ![r] = "done"]
    /\ hloc' = [hloc EXCEPT ![r] = NoLocals]
    /\ hlog' = [hlog EXCEPT !.last = record]

Rejection_MethodFirst(http_method, path) ==
    IF http_method # "POST"
    THEN Response(405, "POST", ErrorBody(-32601, "Method Not Allowed", <<http_method>>))
    ELSE Response(404, "", ErrorBody(-32601, "Not Found", <<path>>))

\* the two early returns of handle_request: `if path != "/mcp"` first, then
\* `if method != "POST"`
Rejection(http_method, path) ==
    IF path # "/mcp"
    THEN Response(404, "", ErrorBody(-32601, "Not Found", <<path>>))
    ELSE Response(405, "POST", ErrorBody(-32601, "Method Not Allowed", <<http_method>>))

\* handle_request up to the path and method checks: 404, 405
HRejected(r, http_method, path, body) ==
    /\ hpc[r] = "idle"
    /\ path # "/mcp" \/ http_method # "POST"
    /\ Finish(r, Finished(r, http_method, path, body, NoEnv, QuietProvider, 0, 0, "none", <<>>,
                          Rejection(http_method, path)))
    /\ UNCHANGED <<hpm, hinsts, g_plugin_manager, g_mcp_server, regVars, sqlVars>>

AlreadyInitialized_Unchecked == FALSE

\* the guard of _initialize_server
AlreadyInitialized_Guard == g_plugin_manager # 0 /\ g_mcp_server # 0

\* a POST to /mcp in a process whose globals are both set: _initialize_server
\* returns at once and the dispatcher serves the body
HWarm(r, body, beh) ==
    /\ hpc[r] = "idle"
    /\ AlreadyInitialized_Guard
    /\ AskedBody(hpm[g_mcp_server].m, body, beh)
    /\ LET sv == Serve(hpm[g_mcp_server].m, body, beh)
       IN Finish(r, Finished(r, "POST", "/mcp", body, NoEnv, beh, 0, g_mcp_server, "skipped",
                             sv.steps, sv.response))
    /\ UNCHANGED <<hpm, hinsts, g_plugin_manager, g_mcp_server, regVars, sqlVars>>

\* a POST to /mcp that finds a global unset: _plugin_manager = PluginManager(config),
\* then load_plugins up to `await plugin_instance.initialize()` or to its raise
HCold(r, body, env) ==
    /\ hpc[r] = "idle"
    /\ ~AlreadyInitialized_Guard
    /\ Len(hpm) < MaxManagers
    /\ env.init = "true" /\ env.get_tools = "ok"
    /\ LET mine == Len(hpm) + 1
           b == LoadBeforeAwait(NewManager(hlog.config), hinsts, fs, env)
       IN  /\ g_plugin_manager' = mine
           /\ hinsts' = b.insts
           /\ IF b.exc = "pending"
              THEN /\ hpm' = Append(hpm, [m |-> b.pm, load |-> "loading"])
                   /\ hpc' = [hpc EXCEPT ![r] = "await_initialize"]
                   /\ hloc' = [hloc EXCEPT ![r] = [body |-> body, mine |-> mine,
                                                   inst |-> Len(b.insts), steps |-> b.steps]]
                   /\ hlog' = [hlog EXCEPT !.load_calls = @ + 1]
              ELSE /\ hpm' = Append(hpm, [m |-> b.pm, load |-> "failed"])
                   /\ hpc' = [hpc EXCEPT ![r] = "done"]
                   /\ hloc' = hloc
                   /\ LET e == InitializeRaises(b.exc, b.text)
                      IN hlog' = [hlog EXCEPT
                            !.load_calls = @ + 1,
                            !.last = Finished(r, "POST", "/mcp", body, env, QuietProvider, mine,
                                              0, "failed", b.steps, ErrorResponse(e.exc, e.text))]
    /\ UNCHANGED <<g_mcp_server, regVars, sqlVars>>

\* initialize() returned: the rest of load_plugins, then
\* _mcp_server = MCPServer(_plugin_manager) and the dispatch of the body
HResume(r, env, beh) ==
    /\ hpc[r] = "await_initialize"
    /\ env.class = "ok" /\ env.ctor = "ok"
    /\ LET loc == hloc[r]
           a == LoadAfterAwait(hpm[loc.mine].m, hinsts, loc.inst, env, loc.steps)
           served == IF g_plugin_manager = loc.mine THEN a.pm ELSE hpm[g_plugin_manager].m
       IN  /\ hinsts' = a.insts
           /\ IF a.exc # "none"
              THEN /\ beh = QuietProvider
                   /\ hpm' = [hpm EXCEPT ![loc.mine] = [m |-> a.pm, load |-> "failed"]]
                   /\ g_mcp_server' = g_mcp_server
                   /\ LET e == InitializeRaises(a.exc, a.text)
                      IN Finish(r, Finished(r, "POST", "/mcp", loc.body, env, beh, loc.mine, 0,
                                            "failed", a.steps, ErrorResponse(e.exc, e.text)))
              ELSE /\ AskedBody(served, loc.body, beh)
                   /\ hpm' = [hpm EXCEPT ![loc.mine] = [m |-> a.pm, load |-> "loaded"]]
                   /\ g_mcp_server' = g_plugin_manager
                   /\ LET sv == Serve(served, loc.body, beh)
                      IN Finish(r, Finished(r, "POST", "/mcp", loc.body, env, beh, loc.mine,
                                            g_plugin_manager, "done", a.steps \o sv.steps,
                                            sv.response))
    /\ UNCHANGED <<g_plugin_manager, regVars, sqlVars>>

\* requests arrive in order of their number
Arrives(r) == \A k \in Requests : k < r => hpc[k] # "idle"

NextHTTP ==
    \/ \E r \in Requests, h \in HttpMethods, p \in Paths :
          Arrives(r) /\ HRejected(r, h, p, JsonObject(Envelope("1", "ping", NoParams)))
    \/ \E r \in Requests, body \in Bodies, beh \in Behaviours :
          Arrives(r) /\ HWarm(r, body, beh)
    \/ \E r \in Requests, body \in Bodies, env \in LoadEnvs :
          Arrives(r) /\ HCold(r, body, env)
    \/ \E r \in Requests, env \in LoadEnvs, beh \in Behaviours : HResume(r, env, beh)

SpecHTTP == InitHTTP /\ [][NextHTTP]_vars

-----------------------------------------------------------------------------
(* plugins/ckan/sql_validator.py.  A SQL text is a sequence of pieces        *)
(* (words, punctuation, quoted identifiers) written with blanks between      *)
(* them, plus `pad` further characters (a blank and a long name) that no     *)
(* check matches.                                                            *)

MAX_SQL_LENGTH == 50000

\* a quoted 36-character identifier of the 8-4-4-4-12 shape, and one of 36
\* characters of [a-f0-9-] that is not of that shape
GoodId == "\"a1b2c3d4-e5f6-7890-abcd-ef1234567890\""
BadId  == "\"a1b2c3d4e5f6-7890-abcd-ef1234567890a\""

Blank == " "

Pieces == {"SELECT", "select", "SELECTED", "x", "drop", "dropped", ";", "--",
           "pg_sleep", "WITH", GoodId, BadId, Blank}

\* str.upper() of a piece
Upper(piece) ==
    CASE piece = "select" -> "SELECT"
      [] piece = "drop" -> "DROP"
      [] piece = "dropped" -> "DROPPED"
      [] piece = "pg_sleep" -> "PG_SLEEP"
      [] piece = "x" -> "X"
      [] OTHER -> piece

\* number of characters of a piece
PieceLen(piece) ==
    CASE piece \in {GoodId, BadId} -> 38
      [] piece \in {"SELECTED", "pg_sleep"} -> 8
      [] piece = "dropped" -> 7
      [] piece \in {"SELECT", "select"} -> 6
      [] piece \in {"drop", "WITH"} -> 4
      [] piece = "--" -> 2
      [] OTHER -> 1

RECURSIVE TextLen(_)
\* len() of the pieces with one blank between neighbours
TextLen(text) ==
    IF text = <<>> THEN 0
    ELSE PieceLen(Head(text)) + (IF Len(text) > 1 THEN 1 ELSE 0) + TextLen(Tail(text))

RECURSIVE LStrip(_)
LStrip(text) ==
    IF text # <<>> /\ Head(text) = Blank THEN LStrip(Tail(text)) ELSE text

RECURSIVE RStrip(_)
RStrip(text) ==
    IF text # <<>> /\ text[Len(text)] = Blank THEN RStrip(SubSeq(text, 1, Len(text) - 1))
    ELSE text

\* sql.strip()
Strip(text) == RStrip(LStrip(text))

FORBIDDEN_KEYWORDS ==
    <<"INSERT", "UPDATE", "DELETE", "DROP", "CREATE", "ALTER", "GRANT", "REVOKE",
      "TRUNCATE", "EXECUTE", "EXEC", "CALL", "DECLARE", "SET">>

\* sql.upper().startswith("SELECT")
StartsWithSelect(text) ==
    text # <<>> /\ Upper(Head(text)) \in {"SELECT", "SELECTED"}

\* re.search(rf"\b{keyword}\b", sql, re.IGNORECASE)
KeywordIn(keyword, text) == \E i \in DOMAIN text : Upper(text[i]) = keyword

\* the keywords of the list found in the text, by their place in the list
ForbiddenKeywordsIn(text) ==
    {k \in DOMAIN FORBIDDEN_KEYWORDS : KeywordIn(FORBIDDEN_KEYWORDS[k], text)}

\* f"Forbidden keyword: {keyword}" for each keyword of the list
ForbiddenMessages ==
    <<"Forbidden keyword: INSERT", "Forbidden keyword: UPDATE", "Forbidden keyword: DELETE",
      "Forbidden keyword: DROP", "Forbidden keyword: CREATE", "Forbidden keyword: ALTER",
      "Forbidden keyword: GRANT", "Forbidden keyword: REVOKE", "Forbidden keyword: TRUNCATE",
      "Forbidden keyword: EXECUTE", "Forbidden keyword: EXEC", "Forbidden keyword: CALL",
      "Forbidden keyword: DECLARE", "Forbidden keyword: SET">>

\* the message for the keyword the loop over the list stops at
FirstForbidden(text) ==
    ForbiddenMessages[CHOOSE k \in ForbiddenKeywordsIn(text) :
                         \A j \in ForbiddenKeywordsIn(text) : k <= j]

\* the piece holds DROP, DELETE or INSERT as a substring, in any case
HoldsMutatingWord(piece) == Upper(piece) \in {"DROP", "DROPPED"}

\* the five (pattern, msg) pairs, in order; "none" when no pattern matches
DangerousPattern(text) ==
    IF \E i, j \in DOMAIN text : i < j /\ text[i] = ";" /\ HoldsMutatingWord(text[j])
    THEN "Multiple statements detected"
    ELSE IF \E i, j \in DOMAIN text : i < j /\ text[i] = "--" /\ HoldsMutatingWord(text[j])
    THEN "Dangerous comment detected"
    ELSE IF \E i \in DOMAIN text : Upper(text[i]) = "PG_SLEEP"
    THEN "Sleep function detected"
    ELSE "none"

\* the pieces sqlparse reads as code: those before the first "--" (the text
\* has no line break, so a comment runs to its end)
RECURSIVE BeforeComment(_)
BeforeComment(text) ==
    IF text = <<>> \/ Head(text) = "--" THEN <<>>
    ELSE <<Head(text)>> \o BeforeComment(Tail(text))

RECURSIVE SplitStatements(_, _, _)
\* sqlparse's statement splitter: a statement ends at ";"; blanks after it
\* stay with it; the next other piece opens a new statement
SplitStatements(code, current, ended) ==
    IF code = <<>> THEN (IF current = <<>> THEN <<>> ELSE <<current>>)
    ELSE IF ended /\ Head(code) # Blank
    THEN <<current>> \o SplitStatements(Tail(code), <<Head(code)>>, Head(code) = ";")
    ELSE SplitStatements(Tail(code), Append(current, Head(code)),
                         ended \/ Head(code) = ";")

\* sqlparse.parse(sql)
Parse(text) == SplitStatements(BeforeComment(text), <<>>, FALSE)

\* Statement.get_type(): the first piece that is no blank, when it is a DML or
\* DDL keyword; a WITH is followed to the first DML keyword after it
RECURSIVE GetType(_)
GetType(statement) ==
    IF statement = <<>> THEN "UNKNOWN"
    ELSE IF Head(statement) = Blank THEN GetType(Tail(statement))
    ELSE IF Upper(Head(statement)) \in {"SELECT", "DROP"} THEN Upper(Head(statement))
    ELSE IF Head(statement) = "WITH"
    THEN (IF \E i \in DOMAIN statement : Upper(statement[i]) = "SELECT"
          THEN "SELECT" ELSE "UNKNOWN")
    ELSE "UNKNOWN"

ParseVerdict_FirstStatementOnly(text) ==
    LET parsed == Parse(text)
    IN  IF parsed = <<>> \/ GetType(parsed[1]) # "SELECT" THEN "Only SELECT statements allowed"
        ELSE "none"

\* step 5 of validate_query
ParseVerdict(text) ==
    LET parsed == Parse(text)
    IN  IF Len(parsed) # 1 THEN "Multiple statements not allowed"
        ELSE IF GetType(parsed[1]) # "SELECT" THEN "Only SELECT statements allowed"
        ELSE "none"

\* step 6: every quoted 36-character token of [a-f0-9-] must be a UUID
InvalidIdIn(text) == \E i \in DOMAIN text : text[i] = BadId

Verdict(is_valid, error) == [is_valid |-> is_valid, error |-> error]

\* len(sql): the pieces, the blanks between them and the pad
RawLen(sql) == TextLen(sql.text) + sql.pad

\* len(sql.strip()): the blanks before the first piece go; so do those after
\* the last one unless the pad follows them; of a pad that follows nothing
\* but blanks its own blank goes as well
StrippedLen(sql) ==
    IF sql.pad = 0 THEN TextLen(Strip(sql.text))
    ELSE IF LStrip(sql.text) = <<>> THEN sql.pad - 1
    ELSE TextLen(LStrip(sql.text)) + sql.pad

validate_query_PatternsBeforeKeywords(sql) ==
    IF sql.kind # "str" \/ (sql.text = <<>> /\ sql.pad = 0)
    THEN Verdict(FALSE, "SQL must be non-empty string")
    ELSE LET text == Strip(sql.text)
         IN  IF StrippedLen(sql) > MAX_SQL_LENGTH
             THEN Verdict(FALSE, "SQL too long (max 50000)")
             ELSE IF ~StartsWithSelect(text)
             THEN Verdict(FALSE, "Only SELECT queries allowed")
             ELSE IF DangerousPattern(text) # "none"
             THEN Verdict(FALSE, DangerousPattern(text))
             ELSE IF ForbiddenKeywordsIn(text) # {}
             THEN Verdict(FALSE, FirstForbidden(text))
             ELSE IF ParseVerdict(text) # "none"
             THEN Verdict(FALSE, ParseVerdict(text))
             ELSE IF InvalidIdIn(text)
             THEN Verdict(FALSE, "Invalid UUID format: a1b2c3d4e5f6-7890-abcd-ef1234567890a")
             ELSE Verdict(TRUE, "None")

\* SQLValidator.validate_query(sql); sql.kind is "str" for a string
validate_query(sql) ==
    IF sql.kind # "str" \/ (sql.text = <<>> /\ sql.pad = 0)
    THEN Verdict(FALSE, "SQL must be non-empty string")
    ELSE LET text == Strip(sql.text)
         IN  IF StrippedLen(sql) > MAX_SQL_LENGTH
             THEN Verdict(FALSE, "SQL too long (max 50000)")
             ELSE IF ~StartsWithSelect(text)
             THEN Verdict(FALSE, "Only SELECT queries allowed")
             ELSE IF ForbiddenKeywordsIn(text) # {}
             THEN Verdict(FALSE, FirstForbidden(text))
             ELSE IF DangerousPattern(text) # "none"
             THEN Verdict(FALSE, DangerousPattern(text))
             ELSE IF ParseVerdict(text) # "none"
             THEN Verdict(FALSE, ParseVerdict(text))
             ELSE IF InvalidIdIn(text)
             THEN Verdict(FALSE, "Invalid UUID format: a1b2c3d4e5f6-7890-abcd-ef1234567890a")
             ELSE Verdict(TRUE, "None")

-----------------------------------------------------------------------------
(* plugins/ckan/plugin.py: the tools of the provider.                       *)

Str(text) == [kind |-> "str", text |-> text, pad |-> 0]
NoneValue == [kind |-> "none", text |-> <<>>, pad |-> 0]

\* `not x` for an argument value
Falsy(v) == v.kind = "none" \/ (v.kind = "str" /\ v.text = <<>> /\ v.pad = 0)

SqlPassed_Unvalidated(sql) == TRUE

\* is_valid of `is_valid, error = SQLValidator.validate_query(sql)` in execute_sql
SqlPassed(sql) == validate_query(sql).is_valid

\* CKANPlugin.execute_sql
execute_sql(sql, has_client, fails) ==
    IF ~SqlPassed(sql)
    THEN [error |-> TRUE, message |-> validate_query(sql).error, posts |-> <<>>]
    ELSE LET c == call_ckan_api(has_client, "datastore_search_sql", sql, fails)
         IN  IF c.exc # "none"
             THEN [error |-> TRUE, message |-> c.exc, posts |-> c.posts]
             ELSE [error |-> FALSE, message |-> "None", posts |-> c.posts]

\* f'"{resource_id}"': the pieces the quoted resource id reads as
QuotedResource(resource_id) ==
    CASE resource_id = "uuid" -> <<GoodId>>
      [] resource_id = "36-chars" -> <<BadId>>
      [] resource_id = "x\"; drop x --" -> <<"\"x\"", ";", "drop", "x", "--", "\"">>
      [] OTHER -> <<"\"short\"">>

\* one condition of the WHERE clause for a filter value
FilterCondition(value) ==
    CASE value = "str" -> <<"f", "=", "'Open'">>
      [] value = "quote" -> <<"f", "=", "'a''", ";", "drop", "--", "'">>
      [] value = "null" -> <<"f", "IS", "NULL">>
      [] OTHER -> <<"f", "=", "5">>

\* the SQL text aggregate_data assembles
AggregateSql(a) ==
    <<"SELECT">>
    \o (IF a.group_by THEN <<"g", ",">> ELSE <<>>)
    \o <<a.metric, "as", "m">>
    \o <<"FROM">> \o QuotedResource(a.resource_id)
    \o (IF a.filter # "none" THEN <<"WHERE">> \o FilterCondition(a.filter) ELSE <<>>)
    \o (IF a.group_by THEN <<"GROUP", "BY", "g">> ELSE <<>>)
    \o (IF a.having THEN <<"HAVING", "h", ">", "1">> ELSE <<>>)
    \o (IF a.order_by THEN <<"ORDER", "BY", "o">> ELSE <<>>)
    \o <<"LIMIT", "100">>

\* CKANPlugin.aggregate_data
aggregate_data(a, has_client, fails) == execute_sql(Str(AggregateSql(a)), has_client, fails)

Failure_WithoutMessage(message) == [content |-> <<>>, success |-> FALSE, error_message |-> "None"]

\* ToolResult(content=[], success=False, error_message=message), and
\* ToolResult(content=[...], success=True) whose error_message defaults to None
Failure(message) == [content |-> <<>>, success |-> FALSE, error_message |-> message]
Success(text) == [content |-> <<text>>, success |-> TRUE, error_message |-> "None"]

\* the execute_sql branch of CKANPlugin.execute_tool
tool_execute_sql(sql, has_client, fails) ==
    IF Falsy(sql)
    THEN [result |-> Failure("sql parameter is required"), posts |-> <<>>, sql |-> sql]
    ELSE LET r == execute_sql(sql, has_client, fails)
         IN  [result |-> IF r.error THEN Failure(r.message) ELSE Success("SQL Query Results"),
              posts |-> r.posts, sql |-> sql]

\* the aggregate_data branch of CKANPlugin.execute_tool
tool_aggregate_data(a, has_client, fails) ==
    IF a.resource_id = ""
    THEN [result |-> Failure("resource_id parameter is required"), posts |-> <<>>,
          sql |-> NoneValue]
    ELSE IF a.metric = ""
    THEN [result |-> Failure("metrics parameter is required"), posts |-> <<>>,
          sql |-> NoneValue]
    ELSE LET r == aggregate_data(a, has_client, fails)
         IN  [result |-> IF r.error THEN Failure(r.message) ELSE Success("SQL Query Results"),
              posts |-> r.posts, sql |-> Str(AggregateSql(a))]

\* the tools get_tools lists, and a name it does not list
CkanTools == {"search_datasets", "get_dataset", "query_data", "get_schema",
              "execute_sql", "aggregate_data"}
ToolNameInputs == CkanTools \cup {"no_such_tool"}

\* the argument map as passed: without the tool's keys, with them, or no map
ArgumentShapes == {"absent", "given", "not-a-map"}

\* the backend's answer to a request that got through: a well-formed CKAN
\* response, or JSON of another shape
BackendAnswers == {"ok", "malformed"}

\* the CKAN action each plain tool posts
ActionOf(tool_name) ==
    CASE tool_name = "search_datasets" -> "package_search"
      [] tool_name = "get_dataset" -> "package_show"
      [] OTHER -> "datastore_search"

\* the message of the `if not <argument>` return of each plain tool
RequiredMessage(tool_name) ==
    IF tool_name = "get_dataset" THEN "dataset_id is required" ELSE "resource_id is required"

Returned(result, posts, sql) == [exc |-> "none", result |-> result, posts |-> posts, sql |-> sql]
Raises(exc, posts) == [exc |-> exc, result |-> Failure("None"), posts |-> posts, sql |-> NoneValue]

\* the search_datasets, get_dataset, query_data and get_schema branches of
\* CKANPlugin.execute_tool, before the except clause
tool_plain(tool_name, arg, has_client, fails, answer) ==
    IF tool_name # "search_datasets" /\ arg = "absent"
    THEN Returned(Failure(RequiredMessage(tool_name)), <<>>, NoneValue)
    ELSE LET c == call_ckan_api(has_client, ActionOf(tool_name), arg, fails)
         IN  IF c.exc # "none" THEN Raises(c.exc, c.posts)
             ELSE IF answer = "malformed" THEN Raises("AttributeError", c.posts)
             ELSE Returned(Success("formatted"), c.posts, NoneValue)

\* the body of the try block of CKANPlugin.execute_tool
tool_body(call, has_client, fails, answer) ==
    IF call.arg = "not-a-map" THEN Raises("AttributeError", <<>>)
    ELSE IF call.tool_name = "execute_sql"
    THEN LET r == tool_execute_sql(call.sql, has_client, fails)
         IN  Returned(r.result, r.posts, r.sql)
    ELSE IF call.tool_name = "aggregate_data"
    THEN LET r == tool_aggregate_data(call.arguments, has_client, fails)
         IN  Returned(r.result, r.posts, r.sql)
    ELSE IF call.tool_name \in CkanTools
    THEN tool_plain(call.tool_name, call.arg, has_client, fails, answer)
    ELSE Returned(Failure("Unknown tool: no_such_tool"), <<>>, NoneValue)

\* f"Tool execution failed: {str(e)}"
CaughtMessage(exc) ==
    IF exc = "RetryError" THEN "Tool execution failed: RetryError"
    ELSE "Tool execution failed: 'list' object has no attribute 'get'"

Caught_Propagated(r) == r

\* the `except Exception` clause of CKANPlugin.execute_tool
Caught(r) ==
    IF r.exc = "none" THEN r
    ELSE [exc |-> "none", result |-> Failure(CaughtMessage(r.exc)), posts |-> r.posts,
          sql |-> r.sql]

\* CKANPlugin.execute_tool
CKANPlugin_execute_tool(call, has_client, fails, answer) ==
    Caught(tool_body(call, has_client, fails, answer))

\* what PluginManager.execute_tool returns for what the stored provider did:
\* the provider's result, or the failed outcome of its except branch
Relayed(r) ==
    IF r.exc = "none" THEN r.result ELSE Failure(CaughtMessage(r.exc))

-----------------------------------------------------------------------------
(* SpecSQL: validate_query on bounded texts, and the tools of the CKAN      *)
(* provider.                                                                *)

RECURSIVE Texts(_)
\* the texts of at most n pieces
Texts(n) ==
    IF n = 0 THEN {<<>>}
    ELSE LET shorter == Texts(n - 1)
         IN  shorter \cup {Append(t, p) : t \in {u \in shorter : Len(u) = n - 1}, p \in Pieces}

\* arguments given as sql: no string, or a text, some padded to the length limit
SqlInputs ==
    {NoneValue, [kind |-> "int", text |-> <<>>, pad |-> 0]}
    \cup {Str(t) : t \in Texts(MaxSqlLen)}
    \cup {[kind |-> "str", text |-> t, pad |-> n] :
            t \in Texts(1) \cup {<<Blank, "SELECT">>},
            n \in {MAX_SQL_LENGTH - 6, MAX_SQL_LENGTH - 5, MAX_SQL_LENGTH + 1}}

AggregateInputs ==
    [resource_id : {"", "uuid", "36-chars", "x\"; drop x --", "short"},
     metric : {"", "count(*)", "drop", "pg_sleep"},
     group_by : BOOLEAN, filter : {"none", "str", "quote", "null", "num"},
     having : BOOLEAN, order_by : BOOLEAN]

Fails == 0..StopAfterAttempt

NoArguments ==
    [resource_id |-> "", metric |-> "", group_by |-> FALSE, filter |-> "none",
     having |-> FALSE, order_by |-> FALSE]

\* the calls made: the validator alone, each SQL tool with its arguments, and
\* every tool name with every shape of argument map
SqlCalls ==
    {[op |-> o, tool_name |-> o, arg |-> "given", sql |-> sql, arguments |-> NoArguments] :
        o \in {"validate_query", "execute_sql"}, sql \in SqlInputs}
    \cup {[op |-> "aggregate_data", tool_name |-> "aggregate_data", arg |-> "given",
            sql |-> NoneValue, arguments |-> a] : a \in AggregateInputs}
    \cup {[op |-> "execute_tool", tool_name |-> t, arg |-> g, sql |-> NoneValue,
            arguments |-> NoArguments] :
            t \in ToolNameInputs, g \in ArgumentShapes}

RegIdle == pm = <<>> /\ insts = <<>> /\ fs = {} /\ res = <<>>

InitSQL ==
    /\ q \in SqlCalls
    /\ out = <<>>
    /\ backend = <<>>
    /\ RegIdle
    /\ HttpIdle

\* SQLValidator.validate_query(sql)
ValidateQuery ==
    /\ q.op = "validate_query" /\ out = <<>>
    /\ out' = <<[verdict |-> validate_query(q.sql)]>>
    /\ UNCHANGED <<q, backend, regVars, httpVars>>

\* the client and the backend matter only to a query that is dispatched
BackendAsked(r, has_client, fails) ==
    (r.posts = <<>> /\ r.result.error_message # "RetryError") => (has_client /\ fails = 0)

Answered(r, has_client, fails) ==
    <<[exc |-> r.exc, result |-> r.result, sql |-> r.sql, has_client |-> has_client,
       fails |-> fails, answer |-> "ok"]>>

\* a plain tool whose required argument is given posts to the backend
PostsToBackend(call) ==
    /\ call.tool_name \in CkanTools \ {"execute_sql", "aggregate_data"}
    /\ call.arg = "given" \/ (call.arg = "absent" /\ call.tool_name = "search_datasets")

\* await plugin.execute_tool("execute_sql", {"sql": sql})
ToolExecuteSql(has_client, fails) ==
    /\ q.op = "execute_sql" /\ out = <<>>
    /\ LET r == CKANPlugin_execute_tool(q, has_client, fails, "ok")
       IN  /\ BackendAsked(r, has_client, fails)
           /\ out' = Answered(r, has_client, fails)
           /\ backend' = r.posts
    /\ UNCHANGED <<q, regVars, httpVars>>

\* await plugin.execute_tool("aggregate_data", arguments)
ToolAggregateData(has_client, fails) ==
    /\ q.op = "aggregate_data" /\ out = <<>>
    /\ LET r == CKANPlugin_execute_tool(q, has_client, fails, "ok")
       IN  /\ BackendAsked(r, has_client, fails)
           /\ out' = Answered(r, has_client, fails)
           /\ backend' = r.posts
    /\ UNCHANGED <<q, regVars, httpVars>>

\* await plugin.execute_tool(tool_name, arguments)
ToolExecute(has_client, fails, answer) ==
    /\ q.op = "execute_tool" /\ out = <<>>
    /\ ~PostsToBackend(q) => (has_client /\ fails = 0)
    /\ answer # "ok" => (PostsToBackend(q) /\ has_client /\ fails < StopAfterAttempt)
    /\ LET r == CKANPlugin_execute_tool(q, has_client, fails, answer)
       IN  /\ out' = <<[exc |-> r.exc, result |-> r.result, sql |-> r.sql,
                        has_client |-> has_client, fails |-> fails, answer |-> answer,
                        relayed |-> Relayed(r)]>>
           /\ backend' = r.posts
    /\ UNCHANGED <<q, regVars, httpVars>>

NextSQL ==
    \/ ValidateQuery
    \/ \E c \in BOOLEAN, f \in Fails : ToolExecuteSql(c, f)
    \/ \E c \in BOOLEAN, f \in Fails : ToolAggregateData(c, f)
    \/ \E c \in BOOLEAN, f \in Fails, a \in BackendAnswers : ToolExecute(c, f, a)

SpecSQL == InitSQL /\ [][NextSQL]_vars

-----------------------------------------------------------------------------
(* SpecRetry: one CKAN provider from its construction: initialize and      *)
(* shutdown, then one execute_tool call with the attempts of                *)
(* _call_ckan_api under @retry(stop=stop_after_attempt(3),                  *)
(* wait=wait_exponential(...)) taken one at a time; what each attempt does  *)
(* is the backend's choice.  hloc holds the provider's client and           *)
(* _initialized, the locals of the retry loop and what the last initialize  *)
(* or shutdown returned.                                                    *)

RetryCalls ==
    {c \in SqlCalls : c.op = "execute_tool"}
    \cup {[op |-> "execute_sql", tool_name |-> "execute_sql", arg |-> "given",
           sql |-> Str(<<"SELECT">>), arguments |-> NoArguments]}

\* the call gets as far as _call_ckan_api
ReachesBackend(call) == tool_body(call, TRUE, 0, "ok").posts # <<>>

\* the request _call_ckan_api posts
PostOf(call) == tool_body(call, TRUE, 0, "ok").posts[1]

StopRetrying_OneMore(attempt) == attempt >= StopAfterAttempt + 1

\* stop=stop_after_attempt(3)
StopRetrying(attempt) == attempt >= StopAfterAttempt

\* what execute_tool returns once _call_ckan_api has returned or given up
\* after `failed` failed attempts
Outcome(call, has_client, failed, answer) ==
    LET r == CKANPlugin_execute_tool(call, has_client, failed, answer)
    IN  <<[exc |-> r.exc, result |-> r.result, sql |-> r.sql, has_client |-> has_client,
           fails |-> failed, answer |-> answer, posts |-> r.posts]>>

InitRetry ==
    /\ q \in RetryCalls
    /\ out = <<>>
    /\ backend = <<>>
    /\ hloc = [client |-> NewPlugin.client, initialized |-> NewPlugin.initialized,
               attempt |-> 0, waiting |-> FALSE, last |-> [op |-> "construct"]]
    /\ RegIdle
    /\ hpc = <<>> /\ hpm = <<>> /\ hinsts = <<>> /\ hlog = <<>>
    /\ g_plugin_manager = 0 /\ g_mcp_server = 0

\* no execute_tool call is under way
PluginIdle == out = <<>> /\ hloc.attempt = 0 /\ ~hloc.waiting

\* await plugin.initialize()
PluginInitialize(ctor, fails, answer) ==
    /\ PluginIdle
    /\ LET r == CKANPlugin_initialize([client |-> hloc.client, initialized |-> hloc.initialized],
                                      ctor, fails, answer)
       IN  hloc' = [hloc EXCEPT !.client = r.p.client, !.initialized = r.p.initialized,
                                !.last = [op |-> "initialize", exc |-> r.exc, value |-> r.value,
                                          ctor |-> ctor, posts |-> Len(r.posts)]]
    /\ UNCHANGED <<q, out, backend>>

\* await plugin.shutdown()
PluginShutdown ==
    /\ PluginIdle
    /\ LET r == CKANPlugin_shutdown([client |-> hloc.client, initialized |-> hloc.initialized])
       IN  hloc' = [hloc EXCEPT !.client = r.p.client, !.initialized = r.p.initialized,
                                !.last = [op |-> "shutdown", exc |-> r.exc, closed |-> r.closed]]
    /\ UNCHANGED <<q, out, backend>>

\* a branch of execute_tool that returns without calling the backend
ReturnsAtOnce ==
    /\ out = <<>>
    /\ ~ReachesBackend(q)
    /\ out' = Outcome(q, hloc.client, 0, "ok")
    /\ UNCHANGED <<q, backend, hloc>>

\* one attempt of _call_ckan_api: without a client it raises before posting;
\* with one it posts, and the backend answers or fails
Attempt(answers, answer) ==
    /\ out = <<>>
    /\ ReachesBackend(q)
    /\ ~hloc.waiting
    /\ ~StopRetrying(hloc.attempt)
    /\ answers => hloc.client
    /\ answer # "ok" => (answers /\ q.tool_name \notin {"execute_sql", "aggregate_data"})
    /\ backend' = IF hloc.client THEN Append(backend, PostOf(q)) ELSE backend
    /\ IF answers
       THEN /\ out' = Outcome(q, TRUE, hloc.attempt, answer)
            /\ hloc' = [hloc EXCEPT !.attempt = @ + 1]
       ELSE IF StopRetrying(hloc.attempt + 1)
       THEN /\ out' = Outcome(q, hloc.client, hloc.attempt + 1, "ok")
            /\ hloc' = [hloc EXCEPT !.attempt = @ + 1]
       ELSE /\ out' = out
            /\ hloc' = [hloc EXCEPT !.attempt = @ + 1, !.waiting = TRUE]
    /\ UNCHANGED q

\* the wait between two attempts, at most ten seconds, is over
WaitEnds ==
    /\ out = <<>>
    /\ hloc.waiting
    /\ hloc' = [hloc EXCEPT !.waiting = FALSE]
    /\ UNCHANGED <<q, out, backend>>

\* the steps of the execute_tool call
CallSteps ==
    \/ ReturnsAtOnce /\ UNCHANGED <<regVars, hpc, hpm, hinsts, hlog, g_plugin_manager, g_mcp_server>>
    \/ \E answers \in BOOLEAN, answer \in BackendAnswers :
          Attempt(answers, answer)
          /\ UNCHANGED <<regVars, hpc, hpm, hinsts, hlog, g_plugin_manager, g_mcp_server>>
    \/ WaitEnds /\ UNCHANGED <<regVars, hpc, hpm, hinsts, hlog, g_plugin_manager, g_mcp_server>>

NextRetry ==
    \/ \E ctor \in {"ok", "raise"}, fails \in {0, StopAfterAttempt},
          answer \in {"ok", "unhealthy", "malformed"} :
          PluginInitialize(ctor, fails, answer)
          /\ UNCHANGED <<regVars, hpc, hpm, hinsts, hlog, g_plugin_manager, g_mcp_server>>
    \/ PluginShutdown /\ UNCHANGED <<regVars, hpc, hpm, hinsts, hlog, g_plugin_manager, g_mcp_server>>
    \/ CallSteps

\* the awaited call runs on: an attempt ends within the client's timeout and
\* a wait within its cap
SpecRetry == InitRetry /\ [][NextRetry]_vars /\ WF_vars(CallSteps)

-----------------------------------------------------------------------------
(* Properties of the SQL validator and the SQL tools (SpecSQL).             *)

Validated == q.op = "validate_query" /\ out # <<>>
ToolAnswered == q.op \in {"execute_sql", "aggregate_data"} /\ out # <<>>
AnyToolAnswered == q.op \in {"execute_sql", "aggregate_data", "execute_tool"} /\ out # <<>>

C6_ValidatedBeforeDispatch ==
    ToolAnswered =>
        /\ backend # <<>> =>
              /\ out[1].sql.kind = "str" /\ validate_query(out[1].sql).is_valid
              /\ \A i \in DOMAIN backend :
                    backend[i] = [action |-> "datastore_search_sql", data |-> out[1].sql]
        /\ (~Falsy(out[1].sql) /\ ~validate_query(out[1].sql).is_valid) =>
              /\ ~out[1].result.success
              /\ out[1].result.content = <<>>
              /\ out[1].result.error_message = validate_query(out[1].sql).error
              /\ backend = <<>>

C6_Witness ==
    /\ ToolAnswered /\ q.op = "aggregate_data"
    /\ q.arguments.resource_id = "36-chars"
    /\ ~out[1].result.success /\ backend = <<>>
    /\ out[1].result.error_message = "Invalid UUID format: a1b2c3d4e5f6-7890-abcd-ef1234567890a"

-----------------------------------------------------------------------------
(* Properties of the request handler (SpecHTTP).                            *)

\* C7: when first requests interleave at the await of load_plugins and no
\* load has failed, load_plugins has been called at most once, at most one
\* PluginManager has been created by _initialize_server, and at most one
\* provider instance has been activated.
C7_InitializesOnceUnderInterleaving ==
    (\A i \in DOMAIN hpm : hpm[i].load # "failed") =>
        /\ hlog.load_calls <= 1
        /\ Len(hpm) <= 1
        /\ Cardinality({i \in DOMAIN hinsts : hinsts[i].active}) <= 1

-----------------------------------------------------------------------------
(* Properties of the dispatcher and the registry (Spec).                    *)

Dispatched == res.op = "handle_request"
Loaded == res.op = "load_plugins"
Executed == res.op = "execute_tool"
EnabledCount == Len(EnabledPlugins(pm.config))

\* C1: an envelope without an id member gets no reply, whatever its method and
\* also when the routed handler raised.
C1_NotificationNeverReplied ==
    (Dispatched /\ res.request.id = AbsentId) => res.reply = <<>>

C1_Witness ==
    /\ Dispatched
    /\ res.request.id = AbsentId
    /\ res.request.method = "tools/call"
    /\ res.handler_exc = "ValueError"
    /\ res.reply = <<>>

\* C2: an envelope with an id member and a method other than
\* notifications/initialized gets exactly one reply: jsonrpc "2.0", the id echoed,
\* result when the handler returned and error (-32603, "Internal error", the
\* cause's text) when it raised.
C2_CallGetsOneReply ==
    (Dispatched /\ res.request.id # AbsentId
        /\ res.request.method # "notifications/initialized") =>
        /\ Len(res.reply) = 1
        /\ res.reply[1].jsonrpc = "2.0"
        /\ res.reply[1].id = res.request.id
        /\ ("result" \in DOMAIN res.reply[1]) # ("error" \in DOMAIN res.reply[1])
        /\ ("result" \in DOMAIN res.reply[1]) <=> (res.handler_exc = "none")
        /\ "error" \in DOMAIN res.reply[1] =>
              /\ res.reply[1].error.code = -32603
              /\ res.reply[1].error.message = "Internal error"
              /\ res.reply[1].error.data = res.handler_text
              /\ Len(res.reply[1].error.data) > 0

\* C3: with zero or several enabled entries load_plugins raises
\* ConfigurationError right after the count validation (no discovery, no
\* constructor, no initialize); with several, the text names each enabled entry;
\* the registry stays unloaded.
C3_BadCountRaisesBeforeAnyProvider ==
    (Loaded /\ EnabledCount # 1) =>
        /\ res.exc = "ConfigurationError"
        /\ res.steps = <<"validate_plugin_count">>
        /\ EnabledCount >= 2 =>
              \A n \in Range(EnabledPlugins(pm.config)) : n \in Range(res.text)
        /\ ~pm.initialized /\ DOMAIN pm.plugins = {} /\ DOMAIN pm.tools = {}
        /\ insts = <<>>

C3_Witness ==
    /\ Loaded
    /\ EnabledCount = 3
    /\ res.exc = "ConfigurationError"
    /\ "ckan" \in Range(res.text)

C8_ExecuteBeforeLoadFails ==
    (Executed /\ ~pm.initialized) =>
        /\ res.exc = "RuntimeError"
        /\ res.text = <<"Plugin Manager not initialized">>
        /\ res.steps = <<>>

\* the registry was loaded, shut down, and then asked for a tool it had registered
C8_Witness ==
    /\ Executed
    /\ ~pm.initialized
    /\ Len(res.tool_name) = 3
    /\ \E i \in DOMAIN insts : insts[i].shutdowns > 0 /\ res.tool_name[1] = insts[i].name
    /\ res.exc = "RuntimeError"

\* C9: on a loaded registry, execute_tool with a name outside the tool index
\* raises the "not found" ValueError whose text lists every registered name, and
\* calls no provider.
C9_UnknownToolNotFound ==
    (Executed /\ pm.initialized /\ res.tool_name \notin DOMAIN pm.tools) =>
        /\ res.exc = "ValueError"
        /\ "not found" \in Range(res.text)
        /\ res.names = DOMAIN pm.tools
        /\ res.steps = <<>>

C9_Witness ==
    /\ Executed
    /\ pm.initialized
    /\ res.tool_name = <<"ckan", "__", "search_datasets">>
    /\ Cardinality(res.names) = 2
    /\ res.exc = "ValueError"

\* C10: after a successful load every name get_all_tools returns is routed by
\* execute_tool to the stored provider, which returns a ToolResult and does not
\* raise, whatever the provider answers.
C10_ListedToolsAreRoutable ==
    (Executed /\ pm.initialized
        /\ res.tool_name \in {t.name : t \in Range(get_all_tools(pm))}) =>
        /\ res.exc = "none"
        /\ Len(res.steps) = 1
        /\ res.steps[1][2] \in DOMAIN pm.plugins
        /\ res.result.success \in BOOLEAN

C10_Witness ==
    /\ Executed
    /\ pm.initialized
    /\ res.tool_name \in {t.name : t \in Range(get_all_tools(pm))}
    /\ res.arguments = "{}"
    /\ res.exc = "none"
    /\ ~res.result.success

\* C11: when the owning provider's execute_tool raises, PluginManager.execute_tool
\* returns (raises nothing) a ToolResult with success false, a non-empty
\* error_message and empty content, and the step leaves the registry (providers,
\* tool index, is_initialized, provider instances) as it was.
C11_ProviderExceptionBecomesFailedOutcome ==
    /\ []((Executed /\ res.answer = "raise" /\ res.steps # <<>>) =>
            /\ res.exc = "none"
            /\ ~res.result.success
            /\ res.result.error_message # <<>>
            /\ res.result.content = <<>>)
    /\ [][(res'.op = "execute_tool") => (pm' = pm /\ insts' = insts)]_vars

C11_Witness ==
    /\ Executed
    /\ res.answer = "raise"
    /\ Len(res.steps) = 1
    /\ res.steps[1][1] = "plugin.execute_tool"
    /\ res.result = ToolResult(<<>>, FALSE, <<"Tool execution failed:", "boom">>)

-----------------------------------------------------------------------------
(* Properties of the CKAN provider's execute_tool (SpecSQL).                *)

\* C12: CKANPlugin.execute_tool raises nothing, whatever the tool name, the
\* argument map, the client and the backend: it returns a ToolResult, and a
\* ToolResult with success false has empty content and an error_message.
C12_ProviderNeverRaises ==
    AnyToolAnswered =>
        /\ out[1].exc = "none"
        /\ out[1].result.success \in BOOLEAN
        /\ ~out[1].result.success =>
              (out[1].result.content = <<>> /\ out[1].result.error_message # "None")
        /\ (~out[1].has_client \/ out[1].fails >= StopAfterAttempt
              \/ out[1].answer = "malformed" \/ q.arg = "not-a-map"
              \/ q.tool_name \notin CkanTools) => ~out[1].result.success

\* the backend failed every attempt of a plain tool
C12_Witness ==
    /\ AnyToolAnswered
    /\ q.tool_name = "get_schema" /\ q.arg = "given"
    /\ out[1].has_client /\ out[1].fails = StopAfterAttempt
    /\ Len(backend) = StopAfterAttempt
    /\ out[1].result = Failure("Tool execution failed: RetryError")

-----------------------------------------------------------------------------
(* Properties of the dispatcher's methods (Spec).                           *)

IsCall == Dispatched /\ res.request.id # AbsentId
RegistryCalls == {i \in DOMAIN res.steps : res.steps[i][1] = "plugin_manager.execute_tool"}

\* C13: a tools/call envelope with an id member whose params (absent or an
\* object) holds no name, or the empty name, gets an error reply with code
\* -32603 whose data says the tool name is required, and the registry's
\* execute_tool is not invoked.
C13_MissingToolNameIsErrorReply ==
    (IsCall /\ res.request.method = "tools/call" /\ res.request.params.kind # "list"
        /\ res.request.params.name \in {AbsentName, <<>>}) =>
        /\ Len(res.reply) = 1
        /\ "error" \in DOMAIN res.reply[1]
        /\ res.reply[1].error.code = -32603
        /\ "Tool name is required" \in Range(res.reply[1].error.data)
        /\ res.steps = <<>>

\* C14: a tools/call envelope with an id member and a name has the registry's
\* execute_tool invoked exactly once with that name and the arguments given ({}
\* when absent); when it returns a successful ToolResult the reply's result holds
\* content only, when it returns a failed one the reply's result (no error
\* member) holds content, isError true and the error text.
C14_ToolOutcomeMapsToResult ==
    (IsCall /\ res.request.method = "tools/call" /\ res.request.params.kind = "dict"
        /\ res.request.params.name \notin {AbsentName, <<>>}) =>
        /\ Cardinality(RegistryCalls) = 1
        /\ res.steps[1] = <<"plugin_manager.execute_tool", res.request.params.name,
                            IF res.request.params.arguments = "<absent>" THEN "{}"
                            ELSE res.request.params.arguments>>
        /\ res.handler_exc = "none" =>
              /\ Len(res.reply) = 1
              /\ "error" \notin DOMAIN res.reply[1]
              /\ \/ DOMAIN res.reply[1].result = {"content"}
                 \/ /\ DOMAIN res.reply[1].result = {"content", "isError", "error"}
                    /\ res.reply[1].result.isError
                    /\ res.reply[1].result.error # <<>>
              /\ (DOMAIN res.reply[1].result = {"content"}) <=> (res.beh.answer = "ok")

\* C15: a method outside the recognised set gets no reply when the envelope has
\* no id member and an error reply with code -32603 naming the method when it
\* has one; the registry is not invoked.
C15_UnknownMethod ==
    (Dispatched /\ res.request.method = "resources/list") =>
        /\ res.steps = <<>>
        /\ res.request.id = AbsentId => res.reply = <<>>
        /\ res.request.id # AbsentId =>
              /\ Len(res.reply) = 1
              /\ "error" \in DOMAIN res.reply[1]
              /\ res.reply[1].error.code = -32603
              /\ res.reply[1].error.data = <<"Unknown method:", "resources/list">>

\* C16: method notifications/initialized gets no reply, with or without an id
\* member, and asks nothing of the registry.
C16_InitializedNotificationNeverReplied ==
    (Dispatched /\ res.request.method = "notifications/initialized") =>
        (res.reply = <<>> /\ res.steps = <<>>)

C16_Witness ==
    /\ Dispatched
    /\ res.request.method = "notifications/initialized"
    /\ res.request.id = "1"
    /\ res.reply = <<>>

\* C17: an envelope is handled as a notification exactly when it has no id
\* member: with an id member, whatever its value (0, "", null), and a method
\* other than notifications/initialized it gets a reply echoing the id, and
\* without one it gets none.
C17_NotificationIffIdAbsent ==
    (Dispatched /\ res.request.method # "notifications/initialized") =>
        /\ (res.reply = <<>>) <=> (res.request.id = AbsentId)
        /\ res.reply # <<>> => res.reply[1].id = res.request.id

-----------------------------------------------------------------------------
(* Properties of tool registration and of failed loads (Spec).              *)

LoadSucceeded == Loaded /\ res.exc = "none"

C19_DoubleUnderscoreNames ==
    LoadSucceeded =>
        \A P \in DOMAIN pm.plugins : \A i \in DOMAIN ToolsOf(P) :
            /\ <<P, "__", ToolsOf(P)[i]>> \in DOMAIN pm.tools
            /\ pm.tools[<<P, "__", ToolsOf(P)[i]>>] = <<P, ToolsOf(P)[i]>>
            /\ get_all_tools(pm)[i].name = <<P, "__", ToolsOf(P)[i]>>

Unloaded(m) == ~m.initialized /\ DOMAIN m.plugins = {} /\ DOMAIN m.tools = {}

\* C20: a load_plugins on an unloaded registry with one enabled provider that
\* is not discovered, or whose class cannot be loaded, or whose constructor
\* raises, or whose initialize() returns false or raises, raises RuntimeError
\* naming the provider (and, when not discovered, the discovered names), and
\* leaves the registry unloaded.
C20_FailedLoadLeavesRegistryUnloaded ==
    [][(/\ res'.op = "load_plugins"
        /\ Unloaded(pm)
        /\ EnabledCount = 1
        /\ \/ EnabledPlugins(pm.config)[1] \notin fs
           \/ res'.env.class # "ok" \/ res'.env.ctor # "ok" \/ res'.env.init # "true")
       => (/\ res'.exc = "RuntimeError"
           /\ EnabledPlugins(pm.config)[1] \in Range(res'.text)
           /\ EnabledPlugins(pm.config)[1] \notin fs => fs \subseteq Range(res'.text)
           /\ Unloaded(pm'))]_vars

\* initialize() returned false
C20_Witness ==
    /\ Loaded
    /\ res.env.init = "false"
    /\ res.exc = "RuntimeError"
    /\ res.text = <<"Failed to initialize plugin", "ckan">>
    /\ Unloaded(pm)
    /\ Len(insts) = 1

-----------------------------------------------------------------------------
(* Properties of shutdown and of the health probes (Spec).                  *)

\* C21: a shutdown step awaits shutdown() once on every stored provider and on
\* no other, also when that call raises, and ends with no provider stored, an
\* empty tool index and is_initialized false; this holds on a registry that was
\* never loaded and on one that was already shut down.
C21_ShutdownAlwaysClears ==
    [][(res'.op = "shutdown") =>
          /\ Unloaded(pm')
          /\ Len(insts') = Len(insts)
          /\ \A i \in DOMAIN insts :
                insts'[i].shutdowns = insts[i].shutdowns +
                    (IF \E n \in DOMAIN pm.plugins : pm.plugins[n] = i THEN 1 ELSE 0)]_vars

\* the stored provider's shutdown() raised
C21_Witness ==
    /\ res.op = "shutdown"
    /\ res.raised
    /\ Unloaded(pm)
    /\ \E i \in DOMAIN insts : insts[i].shutdowns = 1

\* C22: PluginManager.health_check returns (raises nothing) a map whose keys
\* are exactly the stored providers, each holding what the provider's probe
\* returned, or false when the probe raised; the CKAN provider's probe itself
\* raises nothing and returns false when it has no client, when the backend
\* fails every attempt and when the response is not a healthy status.
C22_HealthProbesNeverRaise ==
    (res.op = "health_check") =>
        /\ DOMAIN res.health = DOMAIN pm.plugins
        /\ \A n \in DOMAIN res.health :
              res.health[n] = (res.probe.exc = "none" /\ res.probe.value)
        /\ "ckan" \in DOMAIN pm.plugins =>
              /\ res.probe.exc = "none"
              /\ res.probe.value => Len(res.probe.posts) = 1

\* a provider's probe raised
C22_Witness ==
    /\ res.op = "health_check"
    /\ res.probe.exc = "Exception"
    /\ DOMAIN res.health = {"a"}
    /\ ~res.health["a"]

-----------------------------------------------------------------------------
(* Properties of the paths of handle_request (SpecHTTP).                    *)

\* the step finishes a request
Answers == hlog'.last.r # hlog.last.r

\* the step leaves the globals, the managers, their providers and the count of
\* load_plugins calls as they were
InitializationUntouched ==
    /\ g_plugin_manager' = g_plugin_manager
    /\ g_mcp_server' = g_mcp_server
    /\ hpm' = hpm
    /\ hinsts' = hinsts
    /\ hlog'.load_calls = hlog.load_calls

\* C23: a request to a path other than /mcp is answered 404 whatever its
\* method, and a request to /mcp with a method other than POST is answered 405
\* with Allow: POST; answering either neither runs the server initialisation
\* nor reaches the dispatcher.
C23_PathThenMethod ==
    [][Answers =>
          LET d == hlog'.last
          IN  /\ d.path # "/mcp" =>
                    /\ d.response.status = 404
                    /\ d.response.allow = ""
                    /\ d.steps = <<>> /\ d.served_by = 0
                    /\ InitializationUntouched
              /\ (d.path = "/mcp" /\ d.http_method # "POST") =>
                    /\ d.response.status = 405
                    /\ d.response.allow = "POST"
                    /\ d.steps = <<>> /\ d.served_by = 0
                    /\ InitializationUntouched]_vars

\* a GET to another path was answered 404 in a process that never initialised
C23_Witness ==
    /\ hlog.last.r # 0
    /\ hlog.last.path = "/other" /\ hlog.last.http_method = "GET"
    /\ hlog.last.response.status = 404
    /\ g_plugin_manager = 0 /\ hlog.load_calls = 0

\* the last finished request reached handle_http_request
Served == hlog.last.r # 0 /\ hlog.last.served_by # 0

\* C24: handle_http_request answers a body that is not JSON with status 400
\* and the parse-error envelope (code -32700, id null) without invoking the
\* dispatcher, a notification with status 200 and an empty body, and a call
\* with status 200 and its encoded reply; every body gets one of the three.
C24_ThreeOutcomesOfABody ==
    Served =>
        LET d == hlog.last
        IN  /\ d.response.status \in {200, 400}
            /\ d.body.json = "invalid" =>
                  /\ d.response.status = 400
                  /\ d.response.body[1].error.code = -32700
                  /\ d.response.body[1].id = "None"
                  /\ d.init = "skipped" => d.steps = <<>>
            /\ (d.body.json = "object" /\ d.body.envelope.id = AbsentId) =>
                  d.response.status = 200 /\ d.response.body = <<>>
            /\ (d.body.json = "object" /\ d.body.envelope.id # AbsentId) =>
                  d.response.status = 200 /\ d.response.body # <<>>

-----------------------------------------------------------------------------
(* Properties of the dispatcher as a whole (Spec).                          *)

\* C25: dispatching an envelope, whether it succeeds, fails or is a
\* notification, leaves the registry's providers, tool index and initialized
\* flag and the provider instances as they were; its reply is the one the
\* envelope gets from this registry and these provider responses alone, so the
\* same envelope dispatched again right after any other gets the same reply.
C25_DispatcherKeepsNoState ==
    [][(res'.op = "handle_request") =>
          /\ pm' = pm
          /\ insts' = insts
          /\ res'.reply = handle_request(pm, res'.request, res'.beh).reply
          /\ (res.op = "handle_request" /\ res.request = res'.request /\ res.beh = res'.beh) =>
                res'.reply = res.reply]_vars

\* a failing call was dispatched on a loaded registry, which is still loaded
C25_Witness ==
    /\ res.op = "handle_request"
    /\ res.handler_exc # "none"
    /\ res.request.id = "1"
    /\ pm.initialized /\ DOMAIN pm.tools # {}

\* the last finished request ran _initialize_server, which failed on a
\* ConfigurationError of the plugin count
ConfigurationFailed ==
    /\ hlog.last.r # 0
    /\ hlog.last.init = "failed"
    /\ validate_plugin_count(hlog.config).exc = "ConfigurationError"

\* C26: a POST to /mcp whose server initialisation fails on a
\* ConfigurationError is answered 500 with error code -32603, the message
\* "Server configuration error" and data holding the configuration error's text.
C26_ConfigurationErrorResponse ==
    ConfigurationFailed =>
        LET e == hlog.last.response.body[1].error
        IN  /\ hlog.last.response.status = 500
            /\ e.code = -32603
            /\ e.message = "Server configuration error"
            /\ Range(validate_plugin_count(hlog.config).text) \subseteq Range(e.data)

\* C27: in a process whose _initialize_server has succeeded (both globals
\* set), a POST to /mcp that starts and is not interleaved with another
\* creates no PluginManager and no MCPServer, does not call load_plugins, and
\* is served by the registry and provider instance the globals already hold.
C27_LaterInitializeIsNoOp ==
    [][\A r \in Requests :
          (/\ g_plugin_manager # 0 /\ g_mcp_server # 0
           /\ hpc[r] = "idle" /\ hpc'[r] # "idle"
           /\ hlog'.last.path = "/mcp" /\ hlog'.last.http_method = "POST") =>
              /\ hpc'[r] = "done"
              /\ InitializationUntouched
              /\ Len(hpm') = Len(hpm)
              /\ hlog'.last.r = r
              /\ hlog'.last.init = "skipped"
              /\ hlog'.last.served_by = g_mcp_server]_vars

\* the second request of a process was served, after one load_plugins call, by
\* the one manager the first request built
C27_Witness ==
    /\ hlog.last.r = 2
    /\ hlog.last.init = "skipped"
    /\ hlog.last.served_by = 1
    /\ hlog.load_calls = 1
    /\ Len(hpm) = 1 /\ hpm[1].load = "loaded"
    /\ hlog.last.response.status = 200

-----------------------------------------------------------------------------
(* Properties of tool outcomes (SpecSQL).                                   *)

-----------------------------------------------------------------------------
(* Properties of the order of the validator's checks (SpecSQL).             *)

\* a text of the common-table-expression form: WITH, the name of the
\* expression, then a read-only SELECT, and nothing any later check objects to
IsCte(text) ==
    /\ Len(text) >= 3
    /\ text[1] = "WITH" /\ text[2] = "x"
    /\ Upper(text[3]) = "SELECT"
    /\ \A i \in 4..Len(text) : text[i] \in {"x", "SELECT", "select", GoodId}

\* C29: validate_query accepts a query of the form WITH ... SELECT ... that
\* wraps a read-only SELECT, returning (true, None).
C29_CteAccepted ==
    (Validated /\ q.sql.kind = "str" /\ q.sql.pad = 0 /\ IsCte(q.sql.text)) =>
        out[1].verdict = Verdict(TRUE, "None")

Check(fails, reason) == [fails |-> fails, reason |-> reason]

\* the seven checks on one input, each taken alone: whether it fails and the
\* reason it gives
ChecksOf(sql) ==
    LET text == Strip(sql.text)
    IN  <<Check(sql.kind # "str" \/ (sql.text = <<>> /\ sql.pad = 0),
                "SQL must be non-empty string"),
          Check(StrippedLen(sql) > MAX_SQL_LENGTH, "SQL too long (max 50000)"),
          Check(~StartsWithSelect(text), "Only SELECT queries allowed"),
          Check(ForbiddenKeywordsIn(text) # {},
                IF ForbiddenKeywordsIn(text) # {} THEN FirstForbidden(text) ELSE ""),
          Check(DangerousPattern(text) # "none", DangerousPattern(text)),
          Check(ParseVerdict(text) # "none", ParseVerdict(text)),
          Check(InvalidIdIn(text),
                "Invalid UUID format: a1b2c3d4e5f6-7890-abcd-ef1234567890a")>>

FailingChecks(sql) == {i \in DOMAIN ChecksOf(sql) : ChecksOf(sql)[i].fails}

-----------------------------------------------------------------------------
(* Properties of the validator's first two checks (SpecSQL).                *)

\* C31: validate_query rejects an input that is no string, is empty or holds
\* blanks only, each with the reason "SQL must be non-empty string".
C31_BlankInputIsNonEmptyReason ==
    (Validated /\ (q.sql.kind # "str" \/ (Strip(q.sql.text) = <<>> /\ q.sql.pad = 0))) =>
        out[1].verdict = Verdict(FALSE, "SQL must be non-empty string")

\* C32: validate_query rejects as too long every string of more than
\* MAX_SQL_LENGTH characters, and does not reject on length a string of
\* exactly MAX_SQL_LENGTH characters.
C32_LengthLimit ==
    (Validated /\ q.sql.kind = "str") =>
        /\ RawLen(q.sql) > MAX_SQL_LENGTH =>
              out[1].verdict = Verdict(FALSE, "SQL too long (max 50000)")
        /\ RawLen(q.sql) = MAX_SQL_LENGTH =>
              out[1].verdict.error # "SQL too long (max 50000)"

-----------------------------------------------------------------------------
(* Properties of the retried backend call (SpecRetry).                      *)

\* C33: a tool call makes at most three attempts at the backend, each after
\* the first following a failed one and repeating its post, and none
\* following an answered one; and every tool call, whatever the backend does,
\* ends with a ToolResult.
C33_BoundedAttempts ==
    /\ [](/\ hloc.attempt <= StopAfterAttempt
          /\ Len(backend) <= hloc.attempt
          /\ \A i \in DOMAIN backend : backend[i] = backend[1]
          /\ out # <<>> =>
                /\ out[1].exc = "none"
                /\ out[1].result.success \in BOOLEAN
                /\ out[1].posts = backend
                /\ out[1].result.success => Len(backend) = out[1].fails + 1)
    /\ [][out # <<>> => (backend' = backend /\ out' = out)]_vars
    /\ <>(out # <<>>)

\* the backend failed twice and answered the third post
C33_Witness ==
    /\ out # <<>>
    /\ hloc.attempt = StopAfterAttempt
    /\ Len(backend) = StopAfterAttempt
    /\ out[1].result.success

-----------------------------------------------------------------------------
(* Invariants of the registry (Spec).                                       *)

\* C34: in every state of the registry, after any load_plugins and shutdown
\* calls, a registry whose is_initialized is false stores no provider and has
\* an empty tool index.
C34_UninitializedIsEmpty ==
    ~pm.initialized => (DOMAIN pm.plugins = {} /\ DOMAIN pm.tools = {})

\* C35: in every state of the registry at most one provider is stored, it is
\* the one provider the configuration enables, and every entry of the tool
\* index names the stored provider; so execute_tool never raises "Plugin ...
\* not loaded".
C35_OneProviderOwnsTheIndex ==
    /\ Cardinality(DOMAIN pm.plugins) <= 1
    /\ \A n \in DOMAIN pm.plugins : EnabledPlugins(pm.config) = <<n>>
    /\ \A t \in DOMAIN pm.tools : pm.tools[t][1] \in DOMAIN pm.plugins
    /\ (res.op = "execute_tool" /\ res.exc # "none") =>
          (Len(res.text) < 3 \/ res.text[3] # "not loaded")

\* a tool of the one stored provider was executed
C35_Witness ==
    /\ res.op = "execute_tool" /\ res.exc = "none"
    /\ DOMAIN pm.plugins = {"ckan"}
    /\ DOMAIN pm.tools # {}
    /\ Len(insts) = 2

-----------------------------------------------------------------------------
(* Properties of the process-wide initialisation (SpecHTTP).                *)

\* C36: whenever the process-wide dispatcher is set, the PluginManager it
\* wraps has completed load_plugins, also when first requests interleave.
\* A request that passed _initialize_server is never answered with the
\* registry's "Plugin Manager not initialized" error.
C36_DispatcherWrapsLoadedManager ==
    /\ g_mcp_server # 0 => hpm[g_mcp_server].load = "loaded"
    /\ (Served /\ hlog.last.init \in {"done", "skipped"} /\ hlog.last.response.body # <<>>) =>
           LET reply == hlog.last.response.body[1]
           IN  "error" \in DOMAIN reply =>
                   reply.error.data # <<"Plugin Manager not initialized">>

-----------------------------------------------------------------------------
(* Provider instances across loads and shutdown (Spec).                     *)

\* C37: once shutdown has completed on the registry, every provider instance
\* whose initialize() succeeded has had its shutdown() called, whatever
\* sequence of load_plugins and shutdown came before.
C37_NoActivatedProviderDropped ==
    res.op = "shutdown" =>
        \A i \in DOMAIN insts : ~insts[i].active

-----------------------------------------------------------------------------
(* Properties of the CKAN provider's lifecycle (SpecRetry).                 *)

\* C38: initialize never raises and returns true exactly when the provider is
\* initialized afterwards; when it returns false the provider holds no client
\* and is not initialized; shutdown never raises and leaves the provider with
\* no client and not initialized.
C38_InitializeAndShutdownLeaveCleanState ==
    /\ hloc.last.op = "initialize" =>
           /\ hloc.last.exc = "none"
           /\ hloc.last.value <=> hloc.initialized
           /\ ~hloc.last.value => (~hloc.client /\ ~hloc.initialized)
    /\ hloc.last.op = "shutdown" =>
           /\ hloc.last.exc = "none"
           /\ ~hloc.client /\ ~hloc.initialized

-----------------------------------------------------------------------------
(* Properties of a failed initialisation (SpecHTTP).                        *)

\* the step ends a request whose _initialize_server raised
FailsToInitialize == Answers /\ hlog'.last.init = "failed"

\* the step starts a POST to /mcp that creates a PluginManager
StartsCold == \E r \in Requests : hpc[r] = "idle" /\ Len(hpm') = Len(hpm) + 1

\* C39: a request whose _initialize_server raised is answered 500 and leaves
\* the dispatcher as it was, unset unless a load has succeeded; a POST to /mcp
\* that finds the dispatcher unset initialises with a fresh PluginManager; and
\* no request is served by a registry whose load failed.
C39_FailedInitializationIsRetried ==
    /\ []((\A i \in DOMAIN hpm : hpm[i].load # "loaded") => g_mcp_server = 0)
    /\ [](Served => hpm[hlog.last.served_by].load # "failed")
    /\ [][/\ FailsToInitialize =>
                /\ hlog'.last.response.status = 500
                /\ hlog'.last.served_by = 0
                /\ g_mcp_server' = g_mcp_server
          /\ (Answers /\ g_mcp_server = 0 /\ hlog'.last.path = "/mcp"
                /\ hlog'.last.http_method = "POST") => hlog'.last.init \in {"failed", "done"}
          /\ StartsCold =>
                /\ g_plugin_manager' = Len(hpm')
                /\ hpm'[Len(hpm')].m.plugins = EmptyMap
                /\ hpm'[Len(hpm')].m.initialized = FALSE]_vars

-----------------------------------------------------------------------------
(* Exceptions of the dispatcher (SpecHTTP).                                 *)

\* C40: for every body that is well-formed JSON, an object or not and
\* whatever its params, handle_http_request returns a reply or suppresses it:
\* no exception leaves the dispatcher, and the request is not answered 500.
C40_NoExceptionEscapesDispatcher ==
    (Served /\ hlog.last.body.json # "invalid") =>
        /\ handle_http_request(hpm[hlog.last.served_by].m, hlog.last.body,
                               hlog.last.beh).exc = "none"
        /\ hlog.last.response.status = 200

====
